---- MODULE Spec2Model ----
(***************************************************************************)
(* A model of the Readeck API client (src/src/readeck/client.py): the      *)
(* status classification of _make_request, create_bookmark and             *)
(* export_bookmark, the body parsing and validation of the public          *)
(* operations, the export format guard and the frontmatter parser.         *)
(*                                                                         *)
(* A text (a Python str) is a sequence of string pieces whose              *)
(* concatenation is the text; "\n", " " and "-" are always pieces of       *)
(* their own, so that split, strip and startswith act on pieces.           *)
(* An Optional value is a set of at most one element.                      *)
(***************************************************************************)
EXTENDS Integers, Sequences, FiniteSets, TLC

VARIABLES
    base_url,   \* self.base_url, a text
    token,      \* self.token
    headers,    \* the default headers of self._client
    closed,     \* whether self._client has been closed
    closes,     \* number of calls of close() since construction
    scope,      \* the "async with" block: "none", "inside", and once it
                \* is left how it ended: "normal" or "exception"
    pc,         \* position of the caller: "idle", "awaiting", "done"
    call,       \* the operation in progress and its arguments
    request,    \* Optional: the HTTP request the call in progress has sent
    sent,       \* number of HTTP requests sent since construction
    reply,      \* Optional: what the transport answered to the request
    outcome,    \* Optional: what the finished call returned or raised
    fn,         \* the pure function applied last ("" when none)
    arg,        \* its argument
    result,     \* its result
    tasks       \* the calls of the tasks that use the client concurrently:
                \* for each task its position, call, request, reply, outcome

client ==
    <<base_url, token, headers, closed, closes, scope, pc, call, request, sent,
      reply, outcome>>
pure == <<fn, arg, result>>
vars == <<client, pure, tasks>>

\* Number of requests a behaviour of the model sends at most.
MaxSent == 2

\* Number of calls of close() the caller makes itself, at most.
MaxCloses == 2

None == {}
Some(x) == {x}
Get(o) == CHOOSE x \in o : TRUE

----------------------------------------------------------------------------
(* Texts *)

Text(s) == <<s>>

RECURSIVE LStripPieces(_, _)
\* str.lstrip(chars) for single-piece characters
LStripPieces(t, chars) ==
    IF t # <<>> /\ Head(t) \in chars THEN LStripPieces(Tail(t), chars) ELSE t

RECURSIVE RStripPieces(_, _)
\* str.rstrip(chars)
RStripPieces(t, chars) ==
    IF t # <<>> /\ t[Len(t)] \in chars
    THEN RStripPieces(SubSeq(t, 1, Len(t) - 1), chars)
    ELSE t

StartsWith(t, p) == Len(t) >= Len(p) /\ SubSeq(t, 1, Len(p)) = p

----------------------------------------------------------------------------
(* exceptions.py *)

ReadeckErrorKinds ==
    {"ReadeckError", "ReadeckAuthError", "ReadeckNotFoundError",
     "ReadeckValidationError", "ReadeckServerError"}

ReadeckSubclasses == ReadeckErrorKinds \ {"ReadeckError"}

IsReadeckError(exc) == exc \in ReadeckErrorKinds

NoValue == [type |-> "none"]

\* raise cls(message, status_code=..., response_data=...)
Raise(cls, message, status_code, response_data) ==
    [kind |-> "raise", exc |-> cls, message |-> message,
     status_code |-> status_code, response_data |-> response_data,
     value |-> NoValue]

\* an exception that is not constructed by the client and passes through it
RaiseRaw(cls, message) == Raise(cls, message, None, None)

Return(v) ==
    [kind |-> "return", exc |-> "", message |-> <<>>,
     status_code |-> None, response_data |-> None, value |-> v]

----------------------------------------------------------------------------
(* JSON values and response bodies *)

\* A JSON value: its type tag; for a dict the keys whose values have the
\* type the models expect (keys) and the keys whose values do not (bad);
\* for a list its elements.
JDict(keys, bad) == [t |-> "dict", keys |-> keys, bad |-> bad, items |-> <<>>]
JList(items) == [t |-> "list", keys |-> {}, bad |-> {}, items |-> items]
JScalar(t) == [t |-> t, keys |-> {}, bad |-> {}, items |-> <<>>]

BookmarkRequired == {"id", "href", "url", "title", "type", "created", "updated"}

BookmarkFields ==
    BookmarkRequired \cup
    {"description", "site", "site_name", "authors", "document_type", "lang",
     "text_direction", "loaded", "has_article", "is_archived", "is_deleted",
     "is_marked", "word_count", "reading_time", "read_progress", "state",
     "labels", "published", "resources", "links", "read_anchor"}

UserProfileFields == {"provider", "user"}

BookmarkCreateResponseFields == {"message", "status"}

MarkdownExportMetadataFields ==
    {"title", "saved", "published", "website", "source", "authors", "labels"}

\* Body texts that are JSON documents, each with the value json() gives.
EmptyDictDoc == Text("{}")
EmptyListDoc == Text("[]")
NullDoc == Text("null")
CreateResponseDoc == Text("{\"message\": \"Link submited\", \"status\": 202}")
CreateResponseBadDoc == Text("{\"message\": \"Link submited\", \"status\": \"accepted\"}")
ProfileDoc == Text("{\"provider\": {...}, \"user\": {...}}")
BookmarkDoc == Text("{\"id\": \"bm1\", \"href\": \"h\", \"url\": \"u\", \"title\": \"t\", \"type\": \"article\", \"created\": \"2024-01-15T10:00:00Z\", \"updated\": \"2024-01-15T10:00:00Z\"}")
BookmarkListDoc == <<"[">> \o BookmarkDoc \o <<"]">>
BookmarkListInvalidDoc == <<"[">> \o BookmarkDoc \o <<", ">> \o EmptyDictDoc \o <<"]">>

JsonTable ==
    { <<EmptyDictDoc, JDict({}, {})>>,
      <<EmptyListDoc, JList(<<>>)>>,
      <<NullDoc, JScalar("null")>>,
      <<CreateResponseDoc, JDict({"message", "status"}, {})>>,
      <<CreateResponseBadDoc, JDict({"message"}, {"status"})>>,
      <<ProfileDoc, JDict({"provider", "user"}, {})>>,
      <<BookmarkDoc, JDict(BookmarkRequired, {})>>,
      <<BookmarkListDoc, JList(<<JDict(BookmarkRequired, {})>>)>>,
      <<BookmarkListInvalidDoc,
        JList(<<JDict(BookmarkRequired, {}), JDict({}, {})>>)>> }

\* Body texts that are not JSON.
EmptyBody == <<>>
PlainBody == Text("Bad Request")
MdPlain == <<"# X", "\n">>
MdFrontmatter == <<"-", "-", "-", "\n", "title: T", "\n", "-", "-", "-", "\n", "\n", "# X", "\n">>
MdEmptyFrontmatter == <<"-", "-", "-", "\n", "-", "-", "-", "\n", "\n", "# X", "\n">>
MdUnterminated == <<"-", "-", "-", "\n", "title: T", "\n">>
MdBadYaml == <<"-", "-", "-", "\n", "title: [", "\n", "-", "-", "-", "\n", "# X", "\n">>
MdBadDate == <<"-", "-", "-", "\n", "saved: 2021-13-45", "\n", "-", "-", "-", "\n", "# X", "\n">>

MarkdownBodies ==
    {MdPlain, MdFrontmatter, MdEmptyFrontmatter, MdUnterminated, MdBadYaml, MdBadDate}

Bodies == {p[1] : p \in JsonTable} \cup {EmptyBody, PlainBody} \cup MarkdownBodies

\* response.json(): the parsed value, or the decoder's exception
IsJson(body) == \E p \in JsonTable : p[1] = body
ResponseJson(body) == (CHOOSE p \in JsonTable : p[1] = body)[2]

\* Model.model_validate(v) succeeds (it raises pydantic.ValidationError otherwise)
ModelValidates(required, fields, v) ==
    /\ v.t = "dict"
    /\ required \subseteq v.keys
    /\ v.bad \cap fields = {}

----------------------------------------------------------------------------
(* The transport (httpx.AsyncClient) as the client sees it *)

Statuses ==
    {100, 101, 199, 200, 201, 202, 204, 299, 300, 301, 304, 399, 400, 401,
     402, 403, 404, 405, 409, 421, 422, 423, 429, 499, 500, 501, 503, 599,
     600, 601}

BookmarkIdHeaders == {None, Some("bm1")}
LocationHeaders == {None, Some("https://readeck.example.com/api/bookmarks/bm1")}

ResponseHeaders == [bookmark_id : BookmarkIdHeaders, location : LocationHeaders]

Responses ==
    [kind : {"response"}, status : Statuses, body : Bodies,
     headers : ResponseHeaders, exc : {""}, text : {<<>>}]

\* httpx exception classes; TimeoutException and its subclasses are
\* RequestErrors too.
TimeoutExceptions == {"ConnectTimeout", "ReadTimeout"}
RequestErrors == TimeoutExceptions \cup {"ConnectError", "DecodingError"}

TransportFailures ==
    [kind : {"exception"}, status : {0}, body : {<<>>},
     headers : {[bookmark_id |-> None, location |-> None]},
     exc : RequestErrors, text : {Text("transport failure")}]

TransportOutcomes == Responses \cup TransportFailures

\* Variant: every status below 400 counts as a success.
IsSuccess_Below400(status) == status < 400

\* response.is_success
IsSuccess(status) == 200 <= status /\ status <= 299

----------------------------------------------------------------------------
(* ReadeckClient._make_request *)

AuthFailedMsg == Text("Authentication failed. Please check your token.")
\* Variant: the 403 branch carries the message of the 401 branch.
ForbiddenMsg_As401 == Text("Authentication failed. Please check your token.")
ForbiddenMsg == Text("Access forbidden. Insufficient permissions.")
NotFoundMsg == Text("Resource not found.")
ValidationMsg(r) == <<"Validation error: ">> \o r.body
ServerMsg(r) == <<"Server error: ">> \o r.body
HttpMsg(r) == <<"HTTP ", ToString(r.status), ": ">> \o r.body
JsonParseMsg == <<"Failed to parse JSON response: ", "Expecting value">>
TimeoutMsg(t) == <<"Request timeout: ">> \o t.text
RequestErrorMsg(t) == <<"Request error: ">> \o t.text

\* Variant: a body that does not parse is kept as an empty object.
ErrorData_EmptyObject(r) ==
    IF IsJson(r.body) THEN Some(ResponseJson(r.body)) ELSE Some(JDict({}, {}))

\* error_data = None; try: error_data = response.json(); except Exception: pass
ErrorData(r) == IF IsJson(r.body) THEN Some(ResponseJson(r.body)) ELSE None

\* The if/elif chain on response.status_code: the exception it raises, or
\* None when the response passes it.
MakeRequestStatusError(r) ==
    IF r.status = 401
    THEN Some(Raise("ReadeckAuthError", AuthFailedMsg, Some(r.status), None))
    ELSE IF r.status = 403
    THEN Some(Raise("ReadeckAuthError", ForbiddenMsg, Some(r.status), None))
    ELSE IF r.status = 404
    THEN Some(Raise("ReadeckNotFoundError", NotFoundMsg, Some(r.status), None))
    ELSE IF r.status \in {400, 422}
    THEN Some(Raise("ReadeckValidationError", ValidationMsg(r),
                    Some(r.status), ErrorData(r)))
    ELSE IF 500 <= r.status /\ r.status < 600
    THEN Some(Raise("ReadeckServerError", ServerMsg(r), Some(r.status), None))
    ELSE IF ~IsSuccess(r.status)
    THEN Some(Raise("ReadeckError", HttpMsg(r), Some(r.status), None))
    ELSE None

\* Variant: the parse failure carries the status of the response.
ParseJsonBody_WithStatus(r) ==
    IF IsJson(r.body)
    THEN Return([type |-> "json", json |-> ResponseJson(r.body)])
    ELSE Raise("ReadeckError", JsonParseMsg, Some(r.status), None)

\* try: return response.json(); except Exception as e: raise ReadeckError(...)
ParseJsonBody(r) ==
    IF IsJson(r.body)
    THEN Return([type |-> "json", json |-> ResponseJson(r.body)])
    ELSE Raise("ReadeckError", JsonParseMsg, None, None)

\* Variant: only the exceptions that are not timeouts are wrapped.
WrapTransportFailure_NoTimeout(t) ==
    IF t.exc \in RequestErrors \ TimeoutExceptions
    THEN Raise("ReadeckError", RequestErrorMsg(t), None, None)
    ELSE RaiseRaw(t.exc, t.text)

\* except httpx.TimeoutException / except httpx.RequestError; any other
\* exception of the transport passes through
WrapTransportFailure(t) ==
    IF t.exc \in TimeoutExceptions
    THEN Raise("ReadeckError", TimeoutMsg(t), None, None)
    ELSE IF t.exc \in RequestErrors
    THEN Raise("ReadeckError", RequestErrorMsg(t), None, None)
    ELSE RaiseRaw(t.exc, t.text)

\* The outcome of _make_request once the transport has answered with t.
MakeRequest(t) ==
    IF t.kind = "exception"
    THEN WrapTransportFailure(t)
    ELSE LET err == MakeRequestStatusError(t)
         IN  IF err # None THEN Get(err) ELSE ParseJsonBody(t)

----------------------------------------------------------------------------
(* get_user_profile, get_bookmarks, get_bookmark *)

ValidationErrorText == Text("1 validation error")

GetUserProfile(t) ==
    LET data == MakeRequest(t)
    IN  IF data.kind = "raise" THEN data
        ELSE IF ModelValidates(UserProfileFields, UserProfileFields, data.value.json)
        THEN Return([type |-> "UserProfile", json |-> data.value.json])
        ELSE Raise("ReadeckError",
                   <<"Failed to parse user profile response: ">> \o ValidationErrorText,
                   None, None)

BookmarkValidates(v) == ModelValidates(BookmarkRequired, BookmarkFields, v)

\* type(data) of a value that is not a list
TypeName(v) ==
    CASE v.t = "dict" -> "<class 'dict'>"
      [] v.t = "null" -> "<class 'NoneType'>"
      [] OTHER -> "<class 'str'>"

RECURSIVE SelectValid(_)
SelectValid(items) ==
    IF items = <<>> THEN <<>>
    ELSE (IF ModelValidates(BookmarkRequired, BookmarkFields, Head(items))
          THEN <<Head(items)>> ELSE <<>>) \o SelectValid(Tail(items))

\* Variant: the elements that fail validation are left out of the list.
GetBookmarks_SkipInvalid(t) ==
    LET data == MakeRequest(t)
    IN  IF data.kind = "raise" THEN data
        ELSE IF data.value.json.t = "list"
        THEN Return([type |-> "list[Bookmark]",
                     items |-> SelectValid(data.value.json.items)])
        ELSE Raise("ReadeckError",
                   <<"Unexpected response format: expected list, got ",
                     TypeName(data.value.json)>>,
                   None, None)

\* Variant: a value that is not a list gives an empty list.
GetBookmarks_EmptyOnNonList(t) ==
    LET data == MakeRequest(t)
    IN  IF data.kind = "raise" THEN data
        ELSE IF data.value.json.t = "list"
        THEN IF \A i \in DOMAIN data.value.json.items :
                    BookmarkValidates(data.value.json.items[i])
             THEN Return([type |-> "list[Bookmark]",
                          items |-> data.value.json.items])
             ELSE Raise("ReadeckError",
                        <<"Failed to parse bookmarks response: ">> \o ValidationErrorText,
                        None, None)
        ELSE Return([type |-> "list[Bookmark]", items |-> <<>>])

GetBookmarks(t) ==
    LET data == MakeRequest(t)
    IN  IF data.kind = "raise" THEN data
        ELSE IF data.value.json.t = "list"
        THEN IF \A i \in DOMAIN data.value.json.items :
                    BookmarkValidates(data.value.json.items[i])
             THEN Return([type |-> "list[Bookmark]",
                          items |-> data.value.json.items])
             ELSE Raise("ReadeckError",
                        <<"Failed to parse bookmarks response: ">> \o ValidationErrorText,
                        None, None)
        ELSE Raise("ReadeckError",
                   <<"Unexpected response format: expected list, got ",
                     TypeName(data.value.json)>>,
                   None, None)

GetBookmark(t) ==
    LET data == MakeRequest(t)
    IN  IF data.kind = "raise" THEN data
        ELSE IF BookmarkValidates(data.value.json)
        THEN Return([type |-> "Bookmark", json |-> data.value.json])
        ELSE Raise("ReadeckError",
                   <<"Failed to parse bookmark response: ">> \o ValidationErrorText,
                   None, None)

----------------------------------------------------------------------------
(* create_bookmark *)

\* Variant: only 200 counts as a success and 202 is not exempted.
CreateBookmarkStatusError_Only200(r) ==
    IF r.status = 401
    THEN Some(Raise("ReadeckAuthError", AuthFailedMsg, Some(r.status), None))
    ELSE IF r.status = 403
    THEN Some(Raise("ReadeckAuthError", ForbiddenMsg, Some(r.status), None))
    ELSE IF r.status = 422
    THEN Some(Raise("ReadeckValidationError", ValidationMsg(r),
                    Some(r.status), ErrorData(r)))
    ELSE IF 500 <= r.status /\ r.status < 600
    THEN Some(Raise("ReadeckServerError", ServerMsg(r), Some(r.status), None))
    ELSE IF r.status # 200
    THEN Some(Raise("ReadeckError", HttpMsg(r), Some(r.status), None))
    ELSE None

CreateBookmarkStatusError(r) ==
    IF r.status = 401
    THEN Some(Raise("ReadeckAuthError", AuthFailedMsg, Some(r.status), None))
    ELSE IF r.status = 403
    THEN Some(Raise("ReadeckAuthError", ForbiddenMsg, Some(r.status), None))
    ELSE IF r.status = 422
    THEN Some(Raise("ReadeckValidationError", ValidationMsg(r),
                    Some(r.status), ErrorData(r)))
    ELSE IF r.status = 202
    THEN None
    ELSE IF 500 <= r.status /\ r.status < 600
    THEN Some(Raise("ReadeckServerError", ServerMsg(r), Some(r.status), None))
    ELSE IF ~IsSuccess(r.status)
    THEN Some(Raise("ReadeckError", HttpMsg(r), Some(r.status), None))
    ELSE None

\* BookmarkCreateResponse.model_validate, then the two headers
\* Variant: the location is given only together with the bookmark id.
CreateBookmarkResult_LocationWithId(r) ==
    IF ModelValidates(BookmarkCreateResponseFields, BookmarkCreateResponseFields,
                      ResponseJson(r.body))
    THEN Return([type |-> "BookmarkCreateResult",
                 response |-> ResponseJson(r.body),
                 bookmark_id |-> r.headers.bookmark_id,
                 location |-> IF r.headers.bookmark_id = None THEN None
                              ELSE r.headers.location])
    ELSE Raise("ReadeckError",
               <<"Failed to parse bookmark creation response: ">> \o ValidationErrorText,
               None, None)

CreateBookmarkResult(r) ==
    IF ModelValidates(BookmarkCreateResponseFields, BookmarkCreateResponseFields,
                      ResponseJson(r.body))
    THEN Return([type |-> "BookmarkCreateResult",
                 response |-> ResponseJson(r.body),
                 bookmark_id |-> r.headers.bookmark_id,
                 location |-> r.headers.location])
    ELSE Raise("ReadeckError",
               <<"Failed to parse bookmark creation response: ">> \o ValidationErrorText,
               None, None)

CreateBookmark(t) ==
    IF t.kind = "exception"
    THEN WrapTransportFailure(t)
    ELSE LET err == CreateBookmarkStatusError(t)
         IN  IF err # None THEN Get(err)
             ELSE IF ~IsJson(t.body)
             THEN Raise("ReadeckError", JsonParseMsg, None, None)
             ELSE CreateBookmarkResult(t)

----------------------------------------------------------------------------
(* export_bookmark *)

Formats == {"md", "epub", "pdf"}
\* Variant: "pdf" is allowed too.
AllowedFormats_WithPdf == {"md", "epub", "pdf"}
AllowedFormats == {"md", "epub"}

\* if format not in ["md", "epub"]: raise ReadeckValidationError(...)
ExportFormatError(format) ==
    IF format \notin AllowedFormats
    THEN Some(Raise("ReadeckValidationError",
                    <<"Invalid format '", format, "'. Allowed formats: md, epub">>,
                    None, None))
    ELSE None

AcceptHeader(format) ==
    IF format = "md" THEN "text/markdown" ELSE "application/epub+zip"

\* Variant: the 404 of an export carries the message of the generic request.
ExportNotFoundMsg_Generic(bookmark_id) == Text("Resource not found.")

ExportNotFoundMsg(bookmark_id) ==
    <<"Bookmark '", bookmark_id, "' not found or article not available.">>

\* Variant: the chain has no 404 branch.
ExportStatusError_No404(bookmark_id, r) ==
    IF r.status = 401
    THEN Some(Raise("ReadeckAuthError", AuthFailedMsg, Some(r.status), None))
    ELSE IF r.status = 403
    THEN Some(Raise("ReadeckAuthError", ForbiddenMsg, Some(r.status), None))
    ELSE IF 500 <= r.status /\ r.status < 600
    THEN Some(Raise("ReadeckServerError", ServerMsg(r), Some(r.status), None))
    ELSE IF ~IsSuccess(r.status)
    THEN Some(Raise("ReadeckError", HttpMsg(r), Some(r.status), None))
    ELSE None

ExportStatusError(bookmark_id, r) ==
    IF r.status = 401
    THEN Some(Raise("ReadeckAuthError", AuthFailedMsg, Some(r.status), None))
    ELSE IF r.status = 403
    THEN Some(Raise("ReadeckAuthError", ForbiddenMsg, Some(r.status), None))
    ELSE IF r.status = 404
    THEN Some(Raise("ReadeckNotFoundError", ExportNotFoundMsg(bookmark_id),
                    Some(r.status), None))
    ELSE IF 500 <= r.status /\ r.status < 600
    THEN Some(Raise("ReadeckServerError", ServerMsg(r), Some(r.status), None))
    ELSE IF ~IsSuccess(r.status)
    THEN Some(Raise("ReadeckError", HttpMsg(r), Some(r.status), None))
    ELSE None

\* Variant: the response is returned as text whatever the format.
ExportContent_AlwaysText(format, r) ==
    Return([type |-> "str", text |-> r.body])

\* return response.text for md, response.content for epub
ExportContent(format, r) ==
    IF format = "md"
    THEN Return([type |-> "str", text |-> r.body])
    ELSE Return([type |-> "bytes", content |-> r.body])

\* The outcome of export_bookmark, for an allowed format, once the transport
\* has answered with t.
ExportBookmark(bookmark_id, format, t) ==
    IF t.kind = "exception"
    THEN WrapTransportFailure(t)
    ELSE LET err == ExportStatusError(bookmark_id, t)
         IN  IF err # None THEN Get(err) ELSE ExportContent(format, t)

----------------------------------------------------------------------------
(* _parse_markdown_frontmatter *)

Whitespace == {" ", "\t", "\r", "\n"}
Delimiter == <<"-", "-", "-">>

RECURSIVE Split(_, _)
\* str.split(sep) for a one-piece separator
Split(t, sep) ==
    IF \E i \in DOMAIN t : t[i] = sep
    THEN LET i == CHOOSE k \in DOMAIN t :
                     t[k] = sep /\ \A j \in 1..(k - 1) : t[j] # sep
         IN  <<SubSeq(t, 1, i - 1)>> \o Split(SubSeq(t, i + 1, Len(t)), sep)
    ELSE <<t>>

RECURSIVE Join(_, _)
\* sep.join(lines)
Join(lines, sep) ==
    IF lines = <<>> THEN <<>>
    ELSE IF Len(lines) = 1 THEN lines[1]
    ELSE lines[1] \o <<sep>> \o Join(Tail(lines), sep)

\* str.strip()
Strip(t) == LStripPieces(RStripPieces(t, Whitespace), Whitespace)

\* What yaml.safe_load makes of the pieces of a line.
YamlKeys ==
    { <<"title: T", "title", TRUE>>,
      <<"website: example.com", "website", TRUE>>,
      <<"saved: 2024-01-15", "saved", FALSE>> }   \* a date, not a str
YamlSyntaxErrors == {"title: ["}                  \* the parser raises YAMLError
YamlConstructorErrors == {"saved: 2021-13-45"}    \* datetime.date raises ValueError
YamlComments == {"# X"}                           \* a comment holds no data

\* yaml.safe_load(text): the value, or the exception it raises
YamlLoad(text) ==
    LET pieces == {text[i] : i \in DOMAIN text} \ (Whitespace \cup YamlComments)
        known  == {k \in YamlKeys : k[1] \in pieces}
    IN  IF pieces \cap YamlSyntaxErrors # {}
        THEN [exc |-> "YAMLError", value |-> JScalar("null")]
        ELSE IF pieces \cap YamlConstructorErrors # {}
        THEN [exc |-> "ValueError", value |-> JScalar("null")]
        ELSE IF pieces = {}
        THEN [exc |-> "", value |-> JScalar("null")]
        ELSE IF pieces = {k[1] : k \in known}
        THEN [exc |-> "",
              value |-> JDict({k[2] : k \in {x \in known : x[3]}},
                              {k[2] : k \in {x \in known : ~x[3]}})]
        ELSE IF known = {}
        THEN [exc |-> "", value |-> JScalar("string")]
        ELSE [exc |-> "YAMLError", value |-> JScalar("null")]

\* Variant: the block runs to the last line whose strip() is "---".
FrontmatterEnd_LastLine(lines) ==
    LET hits == {i \in 2..Len(lines) : Strip(lines[i]) = Delimiter}
    IN  IF hits = {} THEN None
        ELSE Some(CHOOSE i \in hits : \A j \in hits : i >= j)

\* Variant: the search for the closing line starts at the opening line.
FrontmatterEnd_FromFirstLine(lines) ==
    LET hits == {i \in 1..Len(lines) : Strip(lines[i]) = Delimiter}
    IN  IF hits = {} THEN None
        ELSE Some(CHOOSE i \in hits : \A j \in hits : i <= j)

\* index of the first line after the opening one whose strip() is "---"
FrontmatterEnd(lines) ==
    LET hits == {i \in 2..Len(lines) : Strip(lines[i]) = Delimiter}
    IN  IF hits = {} THEN None
        ELSE Some(CHOOSE i \in hits : \A j \in hits : i <= j)

Parsed(metadata, content) == [exc |-> "", metadata |-> metadata, content |-> content]

\* Variant: the loaded value is used as it is.
OrEmptyDict_Missing(v) == v

\* yaml.safe_load(...) or {}: None (an empty document) becomes {}
OrEmptyDict(v) == IF v.t = "null" THEN JDict({}, {}) ELSE v

\* Variant: strip() in place of lstrip("\n").
ContentAfter_Strip(lines, end) ==
    Strip(Join(SubSeq(lines, end + 1, Len(lines)), "\n"))

\* "\n".join(lines[frontmatter_end + 1:]).lstrip("\n")
ContentAfter(lines, end) ==
    LStripPieces(Join(SubSeq(lines, end + 1, Len(lines)), "\n"), {"\n"})

\* The try block: safe_load(...) or {}, model_validate, the content after
\* the closing line; except (yaml.YAMLError, ValidationError). The metadata
\* object is given by the fields that are set (keys); the others are None.
ParseFrontmatterBlock(content, lines, end) ==
    LET loaded == YamlLoad(Join(SubSeq(lines, 2, end - 1), "\n"))
        data   == OrEmptyDict(loaded.value)
    IN  IF loaded.exc = "YAMLError"
        THEN Parsed(None, content)
        ELSE IF loaded.exc # ""
        THEN [exc |-> loaded.exc, metadata |-> None, content |-> content]
        ELSE IF ~ModelValidates({}, MarkdownExportMetadataFields, data)
        THEN Parsed(None, content)
        ELSE Parsed(Some(data), ContentAfter(lines, end))

ParseMarkdownFrontmatter(content) ==
    IF ~StartsWith(content, Delimiter \o <<"\n">>)
    THEN Parsed(None, content)
    ELSE LET lines == Split(content, "\n")
             end   == FrontmatterEnd(lines)
         IN  IF end = None
             THEN Parsed(None, content)
             ELSE ParseFrontmatterBlock(content, lines, Get(end))

----------------------------------------------------------------------------
(* export_bookmark_parsed, health_check *)

ExportBookmarkParsed(bookmark_id, t) ==
    LET raw == ExportBookmark(bookmark_id, "md", t)
    IN  IF raw.kind = "raise" THEN raw
        ELSE LET p == ParseMarkdownFrontmatter(raw.value.text)
             IN  IF p.exc # ""
                 THEN RaiseRaw(p.exc, Text("month must be in 1..12"))
                 ELSE Return([type |-> "MarkdownExportResult",
                              metadata |-> p.metadata,
                              content |-> p.content,
                              raw_content |-> raw.value.text])

\* Variant: only the authentication error is turned into False.
HealthCheck_AuthOnly(t) ==
    LET profile == GetUserProfile(t)
    IN  IF profile.kind = "return" THEN Return([type |-> "bool", bool |-> TRUE])
        ELSE IF profile.exc = "ReadeckAuthError"
        THEN Return([type |-> "bool", bool |-> FALSE])
        ELSE profile

HealthCheck(t) ==
    LET profile == GetUserProfile(t)
    IN  IF profile.kind = "return" THEN Return([type |-> "bool", bool |-> TRUE])
        ELSE IF IsReadeckError(profile.exc)
        THEN Return([type |-> "bool", bool |-> FALSE])
        ELSE profile

----------------------------------------------------------------------------
(* The client: construction, the calls of the public operations, close *)

BaseUrlArgs ==
    {<<"https://readeck.example.com">>, <<"https://readeck.example.com", "/">>}
Tokens == {"test_token"}

\* self.base_url = base_url.rstrip("/")
InitBaseUrl(given) == RStripPieces(given, {"/"})

\* the default headers given to httpx.AsyncClient
DefaultHeaders(tok) ==
    ("Accept" :> "application/json") @@
    ("Authorization" :> ("Bearer " \o tok)) @@
    ("User-Agent" :> "readeck-python/0.1.0")

\* httpx merges the headers of one request over the client's defaults
MergeHeaders(defaults, extra) ==
    [h \in DOMAIN defaults \cup DOMAIN extra |->
        IF h \in DOMAIN extra THEN extra[h] ELSE defaults[h]]

NoHeaders == [h \in {} |-> ""]

\* The scheme and host of a URL are one piece; the path after it is made of
\* "/" pieces and the pieces of the segments between them.
Origins == {"https://readeck.example.com"}

\* urljoin: segments[1:-1] = filter(None, segments[1:-1])
FilterMiddle(segments) ==
    IF Len(segments) <= 2 THEN segments
    ELSE <<segments[1]>>
           \o SelectSeq(SubSeq(segments, 2, Len(segments) - 1),
                        LAMBDA s : s # <<>>)
           \o <<segments[Len(segments)]>>

\* urljoin: ".." removes the segment before it (if any), "." is dropped
RECURSIVE ResolveDots(_, _)
ResolveDots(segments, resolved) ==
    IF segments = <<>> THEN resolved
    ELSE IF Head(segments) = <<"..">>
    THEN ResolveDots(Tail(segments),
                     IF resolved = <<>> THEN resolved
                     ELSE SubSeq(resolved, 1, Len(resolved) - 1))
    ELSE IF Head(segments) = <<".">>
    THEN ResolveDots(Tail(segments), resolved)
    ELSE ResolveDots(Tail(segments), Append(resolved, Head(segments)))

\* urllib.parse.urljoin(base, url) for a url that is a relative path with
\* no query and no fragment: the path of the base up to its last "/", then
\* the url, empty segments in the middle removed, dot segments resolved; a
\* path under a host begins with "/".
UrlJoin(base, url) ==
    LET origin     == IF base # <<>> /\ Head(base) \in Origins
                      THEN <<Head(base)>> ELSE <<>>
        bpath      == IF origin = <<>> THEN base ELSE Tail(base)
        parts      == Split(bpath, "/")
        base_parts == IF parts[Len(parts)] # <<>>
                      THEN SubSeq(parts, 1, Len(parts) - 1) ELSE parts
        segments   == FilterMiddle(base_parts \o Split(url, "/"))
        resolved   == ResolveDots(segments, <<>>)
                        \o (IF segments[Len(segments)] \in {<<".">>, <<"..">>}
                            THEN << <<>> >> ELSE <<>>)
        joined     == Join(resolved, "/")
        path       == IF joined = <<>> THEN <<"/">> ELSE joined
    IN  origin
          \o (IF origin # <<>> /\ Head(path) # "/" THEN <<"/">> ELSE <<>>)
          \o path

\* Variant: the base, "/api/" and the endpoint as written, put end to end.
BuildUrl_Concat(base, endpoint) ==
    base \o <<"/", "api", "/">> \o endpoint

\* urljoin(f"{self.base_url}/", f"api/{endpoint.lstrip('/')}")
BuildUrl(base, endpoint) ==
    UrlJoin(base \o <<"/">>, <<"api", "/">> \o LStripPieces(endpoint, {"/"}))

BookmarkIds == {"bm1", "bm2"}
Urls == {"https://example.com/article"}
Titles == {None, Some("A title")}
Labels == {None, Some(<<>>), Some(<<"news">>)}

Ops ==
    {"get_user_profile", "get_bookmarks", "get_bookmark", "create_bookmark",
     "export_bookmark", "export_bookmark_parsed", "health_check"}

Call(op, bookmark_id, format, url, title, labels) ==
    [op |-> op, bookmark_id |-> bookmark_id, format |-> format,
     url |-> url, title |-> title, labels |-> labels]

NoCall == Call("", "", "", "", None, None)

Calls ==
    {Call(op, "", "", "", None, None) :
        op \in {"get_user_profile", "get_bookmarks", "health_check"}}
    \cup {Call(op, b, "", "", None, None) :
            op \in {"get_bookmark", "export_bookmark_parsed"}, b \in BookmarkIds}
    \cup {Call("export_bookmark", b, f, "", None, None) :
            b \in BookmarkIds, f \in Formats}
    \cup {Call("create_bookmark", "", "", u, t, l) :
            u \in Urls, t \in Titles, l \in Labels}

\* Variant: the model is dumped with its None fields.
CreatePayload_WithNone(c) ==
    ("url" :> c.url) @@
    ("labels" :> (IF c.labels = None THEN <<>> ELSE Get(c.labels))) @@
    ("title" :> c.title)

\* BookmarkCreateRequest(url=url, title=title, labels=labels or [])
\*     .model_dump(exclude_none=True)
\* a dict: title is a key only when it is not None
CreatePayload(c) ==
    LET dumped == ("url" :> c.url) @@
                  ("labels" :> (IF c.labels = None THEN <<>> ELSE Get(c.labels)))
    IN  IF c.title = None THEN dumped ELSE dumped @@ ("title" :> Get(c.title))

Request(method, url, hdrs, json) ==
    [method |-> method, url |-> url, headers |-> hdrs, json |-> json]

\* The HTTP request that a call hands to the transport.
RequestOf(c) ==
    CASE c.op \in {"get_user_profile", "health_check"} ->
            Request("GET", BuildUrl(base_url, <<"profile">>),
                    MergeHeaders(headers, NoHeaders), None)
      [] c.op = "get_bookmarks" ->
            Request("GET", BuildUrl(base_url, <<"bookmarks">>),
                    MergeHeaders(headers, NoHeaders), None)
      [] c.op = "get_bookmark" ->
            Request("GET", BuildUrl(base_url, <<"bookmarks", "/", c.bookmark_id>>),
                    MergeHeaders(headers, NoHeaders), None)
      [] c.op = "create_bookmark" ->
            Request("POST", BuildUrl(base_url, <<"bookmarks">>),
                    MergeHeaders(headers, "Content-Type" :> "application/json"),
                    Some(CreatePayload(c)))
      [] c.op = "export_bookmark" ->
            Request("GET",
                    BuildUrl(base_url,
                             <<"bookmarks", "/", c.bookmark_id, "/", "article.", c.format>>),
                    MergeHeaders(headers, "Accept" :> AcceptHeader(c.format)), None)
      [] c.op = "export_bookmark_parsed" ->
            Request("GET",
                    BuildUrl(base_url,
                             <<"bookmarks", "/", c.bookmark_id, "/", "article.", "md">>),
                    MergeHeaders(headers, "Accept" :> AcceptHeader("md")), None)

\* What a call raises before it sends anything, or None.
\* export_bookmark checks the format first; a closed httpx client refuses
\* to send with a RuntimeError.
RaisedBeforeSend(c) ==
    IF c.op = "export_bookmark" /\ ExportFormatError(c.format) # None
    THEN ExportFormatError(c.format)
    ELSE IF closed
    THEN Some(RaiseRaw("RuntimeError",
                       Text("Cannot send a request, as the client has been closed.")))
    ELSE None

\* The rest of the operation after the transport has answered with t.
Handle(c, t) ==
    CASE c.op = "get_user_profile"       -> GetUserProfile(t)
      [] c.op = "get_bookmarks"          -> GetBookmarks(t)
      [] c.op = "get_bookmark"           -> GetBookmark(t)
      [] c.op = "create_bookmark"        -> CreateBookmark(t)
      [] c.op = "export_bookmark"        -> ExportBookmark(c.bookmark_id, c.format, t)
      [] c.op = "export_bookmark_parsed" -> ExportBookmarkParsed(c.bookmark_id, t)
      [] c.op = "health_check"           -> HealthCheck(t)

\* Number of tasks that use one client concurrently.
NumTasks == 2
Tasks == 1..NumTasks

\* a task that is between two calls
IdleTask ==
    [pc |-> "idle", call |-> NoCall, request |-> None, reply |-> None,
     outcome |-> None]

Init ==
    /\ \E given \in BaseUrlArgs : base_url = InitBaseUrl(given)
    /\ \E tok \in Tokens : token = tok /\ headers = DefaultHeaders(tok)
    /\ closed = FALSE
    /\ closes = 0
    /\ scope = "none"
    /\ pc = "idle"
    /\ call = NoCall
    /\ request = None
    /\ sent = 0
    /\ reply = None
    /\ outcome = None
    /\ fn = ""
    /\ arg = <<>>
    /\ result = <<>>
    /\ tasks = [i \in Tasks |-> IdleTask]

\* A caller starts an operation that fails before any request is sent.
InvokeFail(c) ==
    /\ pc = "idle"
    /\ RaisedBeforeSend(c) # None
    /\ call' = c
    /\ outcome' = RaisedBeforeSend(c)
    /\ pc' = "done"
    /\ UNCHANGED <<base_url, token, headers, closed, request, sent, reply>>
    /\ UNCHANGED <<closes, scope>>
    /\ UNCHANGED <<pure, tasks>>

\* A caller starts an operation, which sends its request and awaits the
\* response.
InvokeSend(c) ==
    /\ pc = "idle"
    /\ RaisedBeforeSend(c) = None
    /\ sent < MaxSent
    /\ call' = c
    /\ request' = Some(RequestOf(c))
    /\ sent' = sent + 1
    /\ pc' = "awaiting"
    /\ UNCHANGED <<base_url, token, headers, closed, reply, outcome>>
    /\ UNCHANGED <<closes, scope>>
    /\ UNCHANGED <<pure, tasks>>

\* Variant: a call whose answer makes it fail sends its request again.
Respond_RetryOnFailure(t) ==
    /\ pc = "awaiting"
    /\ reply' = Some(t)
    /\ IF Handle(call, t).kind = "raise" /\ sent < MaxSent
       THEN /\ sent' = sent + 1
            /\ UNCHANGED <<outcome, pc>>
       ELSE /\ outcome' = Some(Handle(call, t))
            /\ pc' = "done"
            /\ UNCHANGED sent
    /\ UNCHANGED <<base_url, token, headers, closed, call, request>>
    /\ UNCHANGED <<closes, scope>>
    /\ UNCHANGED <<pure, tasks>>

\* Variant: a call that fails closes the transport.
Respond_CloseOnFailure(t) ==
    /\ pc = "awaiting"
    /\ reply' = Some(t)
    /\ outcome' = Some(Handle(call, t))
    /\ pc' = "done"
    /\ closed' = (closed \/ Handle(call, t).kind = "raise")
    /\ UNCHANGED <<base_url, token, headers, call, request, sent>>
    /\ UNCHANGED <<closes, scope>>
    /\ UNCHANGED <<pure, tasks>>

\* The transport answers (a response or an exception) and the operation
\* runs to its end.
Respond(t) ==
    /\ pc = "awaiting"
    /\ reply' = Some(t)
    /\ outcome' = Some(Handle(call, t))
    /\ pc' = "done"
    /\ UNCHANGED <<base_url, token, headers, closed, call, request, sent>>
    /\ UNCHANGED <<closes, scope>>
    /\ UNCHANGED <<pure, tasks>>

\* The caller takes the result; the client is ready for the next call.
Finish ==
    /\ pc = "done"
    /\ pc' = "idle"
    /\ call' = NoCall
    /\ request' = None
    /\ reply' = None
    /\ outcome' = None
    /\ UNCHANGED <<base_url, token, headers, closed, sent>>
    /\ UNCHANGED <<closes, scope>>
    /\ UNCHANGED <<pure, tasks>>

\* close(): await self._client.aclose(). Closing a closed client again
\* leaves it closed.
Close ==
    /\ pc = "idle"
    /\ closes < MaxCloses
    /\ closed' = TRUE
    /\ closes' = closes + 1
    /\ UNCHANGED <<base_url, token, headers, scope, pc, call, request, sent,
                   reply, outcome>>
    /\ UNCHANGED <<pure, tasks>>

\* __aenter__: async with client: return self
Enter ==
    /\ scope = "none"
    /\ pc = "idle"
    /\ scope' = "inside"
    /\ UNCHANGED <<base_url, token, headers, closed, closes, pc, call, request,
                   sent, reply, outcome>>
    /\ UNCHANGED <<pure, tasks>>

\* Variant: the exit closes only when the block ended normally.
Exit_NormalOnly(how) ==
    /\ scope = "inside"
    /\ \/ how = "normal" /\ pc = "idle"
       \/ how = "exception" /\ pc = "idle"
       \/ how = "exception" /\ pc = "done" /\ Get(outcome).kind = "raise"
    /\ scope' = how
    /\ closed' = (closed \/ how = "normal")
    /\ closes' = IF how = "normal" THEN closes + 1 ELSE closes
    /\ UNCHANGED <<base_url, token, headers, pc, call, request, sent, reply,
                   outcome>>
    /\ UNCHANGED <<pure, tasks>>

\* __aexit__(exc_type, exc_val, exc_tb): await self.close(). The block is
\* left normally, between two calls, or by an exception: one raised by the
\* block's own code between two calls, or the one a call has just raised.
\* __aexit__ returns None, so the exception goes on to the caller.
Exit(how) ==
    /\ scope = "inside"
    /\ \/ how = "normal" /\ pc = "idle"
       \/ how = "exception" /\ pc = "idle"
       \/ how = "exception" /\ pc = "done" /\ Get(outcome).kind = "raise"
    /\ scope' = how
    /\ closed' = TRUE
    /\ closes' = closes + 1
    /\ UNCHANGED <<base_url, token, headers, pc, call, request, sent, reply,
                   outcome>>
    /\ UNCHANGED <<pure, tasks>>

Next ==
    \/ \E c \in Calls : InvokeFail(c)
    \/ \E c \in Calls : InvokeSend(c)
    \/ \E t \in TransportOutcomes : Respond(t)
    \/ Finish
    \/ Close
    \/ Enter
    \/ \E how \in {"normal", "exception"} : Exit(how)

Spec == Init /\ [][Next]_vars

----------------------------------------------------------------------------
(* Several tasks calling one client concurrently: every await is a point  *)
(* where another task may run.                                             *)

\* the calls the tasks make
TaskCalls ==
    {c \in Calls :
        /\ c.op \in {"get_user_profile", "create_bookmark", "export_bookmark"}
        /\ c.bookmark_id \in {"", "bm1"}
        /\ c.format \in {"", "md", "epub"}
        /\ c.title = None /\ c.labels = None}

\* the answers the transport gives them
TaskReplies ==
    {t \in TransportOutcomes :
        /\ t.status \in {0, 200, 401}
        /\ t.body \in {<<>>, ProfileDoc, CreateResponseDoc, MdPlain}
        /\ t.headers = [bookmark_id |-> None, location |-> None]
        /\ t.exc \in {"", "ReadTimeout"}}

\* Variant: the headers of a call are written into the client's defaults.
TaskSend_UpdateDefaults(i, c) ==
    /\ tasks[i].pc = "idle"
    /\ RaisedBeforeSend(c) = None
    /\ sent < MaxSent
    /\ tasks' = [tasks EXCEPT ![i] =
                    [pc |-> "awaiting", call |-> c,
                     request |-> Some(RequestOf(c)), reply |-> None,
                     outcome |-> None]]
    /\ headers' = RequestOf(c).headers
    /\ sent' = sent + 1
    /\ UNCHANGED <<base_url, token, closed, closes, scope, pc, call,
                   request, reply, outcome>>
    /\ UNCHANGED pure

\* A task starts an operation, which sends its request and awaits the
\* response: self._client.request/get/post(url, headers=...) merges the
\* headers of the call over the defaults for this request.
TaskSend(i, c) ==
    /\ tasks[i].pc = "idle"
    /\ RaisedBeforeSend(c) = None
    /\ sent < MaxSent
    /\ tasks' = [tasks EXCEPT ![i] =
                    [pc |-> "awaiting", call |-> c,
                     request |-> Some(RequestOf(c)), reply |-> None,
                     outcome |-> None]]
    /\ sent' = sent + 1
    /\ UNCHANGED <<base_url, token, headers, closed, closes, scope, pc, call,
                   request, reply, outcome>>
    /\ UNCHANGED pure

\* The transport answers the request of a task and its operation runs to
\* its end.
TaskRespond(i, t) ==
    /\ tasks[i].pc = "awaiting"
    /\ tasks' = [tasks EXCEPT ![i].pc = "done",
                              ![i].reply = Some(t),
                              ![i].outcome = Some(Handle(tasks[i].call, t))]
    /\ UNCHANGED <<client, pure>>

\* The task takes the result of its call.
TaskFinish(i) ==
    /\ tasks[i].pc = "done"
    /\ tasks' = [tasks EXCEPT ![i] = IdleTask]
    /\ UNCHANGED <<client, pure>>

TaskNext ==
    \/ \E i \in Tasks, c \in TaskCalls : TaskSend(i, c)
    \/ \E i \in Tasks, t \in TaskReplies : TaskRespond(i, t)
    \/ \E i \in Tasks : TaskFinish(i)

TaskSpec == Init /\ [][TaskNext]_vars

----------------------------------------------------------------------------
(* The pure functions of the client, applied to bounded inputs *)

\* Number of lines of a text given to _parse_markdown_frontmatter, at most.
MaxLines == 4

\* The lines a markdown text is made of.
FmLines ==
    { <<>>,
      <<"-", "-", "-">>,
      <<"-", "-", "-", " ">>,
      <<" ">>,
      <<"title: T">>,
      <<"title: [">>,
      <<"saved: 2021-13-45">>,
      <<"saved: 2024-01-15">>,
      <<"# X">>,
      <<" ", "# X">> }

FmContents ==
    {Join(ls, "\n") : ls \in UNION {[1..n -> FmLines] : n \in 1..MaxLines}}

\* metadata, content = ReadeckClient._parse_markdown_frontmatter(content)
ApplyParseFrontmatter(content) ==
    /\ fn = ""
    /\ fn' = "_parse_markdown_frontmatter"
    /\ arg' = content
    /\ result' = ParseMarkdownFrontmatter(content)
    /\ UNCHANGED <<client, tasks>>

\* BookmarkListParams: the fields by the type they hold. A value is a
\* record of its type and content; a list holds strings.
ListFields == {"sort", "type", "read_status"}
DatetimeFields == {"updated_since"}
ScalarFields ==
    {"limit", "offset", "search", "title", "author", "site", "labels",
     "is_loaded", "has_errors", "has_labels", "is_marked", "is_archived",
     "range_start", "range_end", "id", "collection"}
ParamFields == ListFields \cup DatetimeFields \cup ScalarFields

IntV(n) == [t |-> "int", v |-> n]
StrV(s) == [t |-> "str", v |-> s]
BoolV(b) == [t |-> "bool", v |-> b]
ListV(l) == [t |-> "list", v |-> l]
DatetimeV(d) == [t |-> "datetime", v |-> d]

\* datetime(year, month, day, hour, minute, second, microsecond, tzinfo);
\* tzinfo is the offset from UTC in minutes, or None for a naive datetime
Datetime(year, month, day, hour, minute, second, microsecond, tzinfo) ==
    [year |-> year, month |-> month, day |-> day, hour |-> hour,
     minute |-> minute, second |-> second, microsecond |-> microsecond,
     tzinfo |-> tzinfo]

\* n in decimal, with zeros in front up to the width
RECURSIVE Pad(_, _)
Pad(n, width) ==
    IF width = 1 THEN ToString(n % 10)
    ELSE Pad(n \div 10, width - 1) \o ToString(n % 10)

\* the UTC offset as datetime.isoformat() writes it: +HH:MM or -HH:MM
IsoOffset(minutes) ==
    LET m == IF minutes < 0 THEN 0 - minutes ELSE minutes
    IN  (IF minutes < 0 THEN "-" ELSE "+") \o Pad(m \div 60, 2) \o ":" \o Pad(m % 60, 2)

\* datetime.isoformat(): YYYY-MM-DDTHH:MM:SS, then .ffffff when the
\* microsecond is not 0, then the UTC offset when the datetime is aware
Isoformat(d) ==
    Pad(d.year, 4) \o "-" \o Pad(d.month, 2) \o "-" \o Pad(d.day, 2) \o "T"
      \o Pad(d.hour, 2) \o ":" \o Pad(d.minute, 2) \o ":" \o Pad(d.second, 2)
      \o (IF d.microsecond = 0 THEN "" ELSE "." \o Pad(d.microsecond, 6))
      \o (IF d.tzinfo = None THEN "" ELSE IsoOffset(Get(d.tzinfo)))

\* Variant: a list is kept as a list whatever its length.
QueryValue_KeepList(v) ==
    IF v.t = "datetime" THEN StrV(Isoformat(v.v)) ELSE v

\* one value of the dumped model, as to_query_params emits it
QueryValue(v) ==
    IF v.t = "list"
    THEN IF Len(v.v) = 1 THEN StrV(v.v[1]) ELSE v
    ELSE IF v.t = "datetime"
    THEN StrV(Isoformat(v.v))
    ELSE v

\* BookmarkListParams.to_query_params(): model_dump(exclude_none=True)
\* keeps the fields that are not None; each is emitted under its own name.
ToQueryParams(params) ==
    LET dumped == {f \in DOMAIN params : params[f] # None}
    IN  [f \in dumped |-> QueryValue(Get(params[f]))]

\* Number of values in a list-typed filter, at most.
MaxItems == 2

\* the values of the list-typed filters, in the order the caller gives them
ListValues ==
    [f \in ListFields |->
        CASE f = "sort"        -> <<"created", "-title", "domain">>
          [] f = "type"        -> <<"article", "video", "photo">>
          [] f = "read_status" -> <<"unread", "reading", "read">>]

ListOf(f, n) ==
    [i \in 1..n |-> ListValues[f][((i - 1) % Len(ListValues[f])) + 1]]

NaiveDatetime == Datetime(2024, 1, 1, 12, 0, 0, 0, None)
AwareDatetime == Datetime(2024, 6, 30, 23, 59, 59, 123, Some(0))
EastDatetime == Datetime(987, 12, 5, 4, 3, 2, 0, Some(330))
WestDatetime == Datetime(2024, 1, 1, 0, 0, 0, 450000, Some(0 - 480))

\* the values a field of BookmarkListParams is given (None: left unset)
FieldValues(f) ==
    CASE f \in {"sort", "type"} ->
            {None} \cup {Some(ListV(ListOf(f, n))) : n \in 0..MaxItems}
      [] f = "read_status" ->
            {None} \cup {Some(ListV(ListOf(f, n))) : n \in 1..MaxItems}
      [] f = "updated_since" ->
            {None} \cup {Some(DatetimeV(d)) :
                            d \in {NaiveDatetime, AwareDatetime,
                                   EastDatetime, WestDatetime}}
      [] f = "limit" -> {None, Some(IntV(10))}
      [] f = "search" -> {None, Some(StrV("test"))}
      [] f = "is_archived" -> {None, Some(BoolV(TRUE)), Some(BoolV(FALSE))}

\* BookmarkListParams(sort=..., type=..., ...): a field that is not given
\* has its default None
Params(sort, type, read_status, updated_since, limit, search, is_archived) ==
    [f \in ParamFields |->
        CASE f = "sort"          -> sort
          [] f = "type"          -> type
          [] f = "read_status"   -> read_status
          [] f = "updated_since" -> updated_since
          [] f = "limit"         -> limit
          [] f = "search"        -> search
          [] f = "is_archived"   -> is_archived
          [] OTHER               -> None]

BookmarkListParams ==
    {Params(s, t, r, u, l, q, a) :
        s \in FieldValues("sort"), t \in FieldValues("type"),
        r \in FieldValues("read_status"), u \in FieldValues("updated_since"),
        l \in FieldValues("limit"), q \in FieldValues("search"),
        a \in FieldValues("is_archived")}

\* query_params = params.to_query_params()
ApplyToQueryParams(params) ==
    /\ fn = ""
    /\ fn' = "to_query_params"
    /\ arg' = params
    /\ result' = ToQueryParams(params)
    /\ UNCHANGED <<client, tasks>>

\* Number of slashes written after a base URL or before an endpoint, at
\* most.
MaxSlashes == 2

Slashes(n) == [i \in 1..n |-> "/"]

\* base URLs without a trailing slash: a host, a host with a path prefix, a
\* host without a scheme, the empty text
BaseCores ==
    { <<"https://readeck.example.com">>,
      <<"https://readeck.example.com", "/", "readeck">>,
      <<"readeck.example.com">>,
      <<>> }

\* endpoints without a leading slash
EndpointCores ==
    { <<"profile">>,
      <<"bookmarks", "/", "bm1">>,
      <<>>,
      <<"bookmarks", "/", "..", "/", "profile">>,
      <<"bookmarks", "/", "/", "bm1">> }

\* ReadeckClient(base_url=given, token=...)._build_url(endpoint)
BuildUrlOf(given, endpoint) == BuildUrl(InitBaseUrl(given), endpoint)

\* _build_url applied to one base URL and one endpoint written in two
\* slash styles
ApplyBuildUrl(b, e, first, second) ==
    /\ fn = ""
    /\ fn' = "_build_url"
    /\ arg' = << [given |-> b \o Slashes(first[1]),
                  endpoint |-> Slashes(first[2]) \o e],
                 [given |-> b \o Slashes(second[1]),
                  endpoint |-> Slashes(second[2]) \o e] >>
    /\ result' = << BuildUrlOf(b \o Slashes(first[1]), Slashes(first[2]) \o e),
                    BuildUrlOf(b \o Slashes(second[1]), Slashes(second[2]) \o e) >>
    /\ UNCHANGED <<client, tasks>>

\* Bookmark.model_validate. A value of the wire (JSON) and of the model is a
\* record of its type and content.
FloatV(x) == [t |-> "float", v |-> x]
DictV(keys) == [t |-> "dict", v |-> keys]
NullV == [t |-> "null", v |-> 0]
NoneV == [t |-> "none", v |-> 0]

\* the declared type of each field of Bookmark
FieldKind(f) ==
    CASE f \in {"id", "href", "url", "title", "type"} -> "str"
      [] f \in {"description", "site", "site_name", "document_type", "lang",
                "text_direction", "read_anchor"} -> "optional str"
      [] f \in {"authors", "labels"} -> "list"
      [] f \in {"loaded", "has_article", "is_archived", "is_deleted",
                "is_marked"} -> "bool"
      [] f \in {"word_count", "reading_time", "state"} -> "int"
      [] f = "read_progress" -> "float"
      [] f \in {"created", "updated"} -> "datetime"
      [] f = "published" -> "optional datetime"
      [] f = "resources" -> "optional model"
      [] f = "links" -> "optional list"

\* Variant: the description defaults to None.
BookmarkDefaults_NoneDescription ==
    [f \in BookmarkFields \ BookmarkRequired |->
        CASE f \in {"site", "site_name", "document_type", "lang"} -> StrV("")
          [] f = "text_direction" -> StrV("ltr")
          [] f \in {"authors", "labels"} -> ListV(<<>>)
          [] FieldKind(f) = "bool" -> BoolV(FALSE)
          [] FieldKind(f) = "int" -> IntV(0)
          [] FieldKind(f) = "float" -> FloatV(0)
          [] OTHER -> NoneV]

\* Field(default=...) and Field(default_factory=list) of the fields that
\* are not required
BookmarkDefaults ==
    [f \in BookmarkFields \ BookmarkRequired |->
        CASE f \in {"description", "site", "site_name", "document_type", "lang"} ->
                StrV("")
          [] f = "text_direction" -> StrV("ltr")
          [] f \in {"authors", "labels"} -> ListV(<<>>)
          [] FieldKind(f) = "bool" -> BoolV(FALSE)
          [] FieldKind(f) = "int" -> IntV(0)
          [] FieldKind(f) = "float" -> FloatV(0)
          [] f \in {"published", "resources", "links", "read_anchor"} -> NoneV]

\* the timestamps of the wire and the datetime each one parses to
ParseDatetime ==
    ("2024-01-15T10:30:00.000Z" :> Datetime(2024, 1, 15, 10, 30, 0, 0, Some(0))) @@
    ("2024-01-15T11:00:00.000Z" :> Datetime(2024, 1, 15, 11, 0, 0, 0, Some(0)))

\* pydantic accepts the wire value for a field of the kind
Accepts(kind, w) ==
    CASE kind = "str" -> w.t = "str"
      [] kind = "optional str" -> w.t \in {"str", "null"}
      [] kind = "list" -> w.t = "list"
      [] kind = "bool" -> w.t = "bool"
      [] kind = "int" -> w.t = "int"
      [] kind = "float" -> w.t \in {"float", "int"}
      [] kind = "datetime" -> w.t = "str" /\ w.v \in DOMAIN ParseDatetime
      [] kind = "optional datetime" ->
            w.t = "null" \/ (w.t = "str" /\ w.v \in DOMAIN ParseDatetime)
      [] kind = "optional model" -> w.t \in {"dict", "null"}
      [] kind = "optional list" -> w.t \in {"list", "null"}

\* the value of the model for an accepted wire value
Convert(kind, w) ==
    IF w.t = "null" THEN NoneV
    ELSE IF kind \in {"datetime", "optional datetime"}
    THEN DatetimeV(ParseDatetime[w.v])
    ELSE IF kind = "float" THEN FloatV(w.v)
    ELSE w

\* Bookmark.model_validate(payload): a key that is no field is ignored, a
\* field that is absent takes its default, a required field that is absent
\* or a value that is not accepted raises ValidationError.
ValidateBookmark(payload) ==
    IF /\ BookmarkRequired \subseteq DOMAIN payload
       /\ \A f \in DOMAIN payload \cap BookmarkFields :
             Accepts(FieldKind(f), payload[f])
    THEN [exc |-> "",
          object |-> [f \in BookmarkFields |->
                        IF f \in DOMAIN payload
                        THEN Convert(FieldKind(f), payload[f])
                        ELSE BookmarkDefaults[f]]]
    ELSE [exc |-> "ValidationError", object |-> <<>>]

\* the minimal payload of test_get_bookmark_minimal_response
MinimalBookmark ==
    [f \in BookmarkRequired |->
        CASE f = "id"      -> StrV("min123")
          [] f = "href"    -> StrV("https://minimal.com")
          [] f = "url"     -> StrV("https://minimal.com")
          [] f = "title"   -> StrV("Minimal Bookmark")
          [] f = "type"    -> StrV("article")
          [] f = "created" -> StrV("2024-01-15T10:30:00.000Z")
          [] f = "updated" -> StrV("2024-01-15T11:00:00.000Z")]

\* The fields that a payload of the model may carry beside the required
\* ones, and how: "absent", "valid", "null" (JSON null) or "bad" (a value of
\* a JSON type the field does not accept).
VariedFields == {"description", "labels", "is_marked", "word_count", "resources"}
WireStates == {"absent", "valid", "null", "bad"}

WireValue(f, how) ==
    CASE how = "null" -> NullV
      [] how = "bad" /\ f \in {"labels", "resources"} -> StrV("x")
      [] how = "bad" -> ListV(<<>>)
      [] how = "valid" /\ f = "description" -> StrV("A description")
      [] how = "valid" /\ f = "labels" -> ListV(<<"news">>)
      [] how = "valid" /\ f = "is_marked" -> BoolV(TRUE)
      [] how = "valid" /\ f = "word_count" -> IntV(1200)
      [] how = "valid" /\ f = "resources" -> DictV({})

\* a payload: the minimal one, less the required keys left out, plus the
\* varied fields that are not absent
BookmarkPayload(left_out, how) ==
    [f \in (BookmarkRequired \ left_out) \cup {v \in VariedFields : how[v] # "absent"} |->
        IF f \in BookmarkRequired THEN MinimalBookmark[f]
        ELSE WireValue(f, how[f])]

\* bookmark = Bookmark.model_validate(payload)
ApplyValidateBookmark(left_out, how) ==
    /\ fn = ""
    /\ fn' = "Bookmark.model_validate"
    /\ arg' = BookmarkPayload(left_out, how)
    /\ result' = ValidateBookmark(BookmarkPayload(left_out, how))
    /\ UNCHANGED <<client, tasks>>

\* The pagination metadata of a highlights list response (section 4.3 of
\* the specification): the headers Total-Count, Current-Page, Total-Pages
\* and Link. A header is an Optional value; the count headers hold a
\* string, the Link header a text.

\* int(s) of a header value: the number a decimal string writes, or None
ParseInt(s) ==
    IF \E n \in 0..99 : ToString(n) = s
    THEN Some(CHOOSE n \in 0..99 : ToString(n) = s)
    ELSE None

\* Variant: a header that cannot be used makes the field 0.
HeaderIntOr_Zero(header, fallback) ==
    IF header = None \/ ParseInt(Get(header)) = None THEN 0
    ELSE Get(ParseInt(Get(header)))

\* the integer of a header, or the fallback when the header is absent or
\* does not parse
HeaderIntOr(header, fallback) ==
    IF header = None \/ ParseInt(Get(header)) = None THEN fallback
    ELSE Get(ParseInt(Get(header)))

\* the piece of an entry that follows the piece before
PieceAfter(entry, before) ==
    LET at == {i \in 1..(Len(entry) - 1) : entry[i] = before}
    IN  IF at = {} THEN None
        ELSE Some(entry[(CHOOSE i \in at : \A j \in at : i <= j) + 1])

RECURSIVE LinksOf_FirstWins(_, _)
\* Variant: an entry does not replace the one that has its relation name.
LinksOf_FirstWins(entries, links) ==
    IF entries = <<>> THEN links
    ELSE LET url == PieceAfter(Head(entries), "<")
             rel == PieceAfter(Head(entries), "rel=\"")
         IN  IF url = None \/ rel = None
             THEN LinksOf_FirstWins(Tail(entries), links)
             ELSE LinksOf_FirstWins(Tail(entries),
                                    links @@ (Get(rel) :> Get(url)))

RECURSIVE LinksOf(_, _)
\* the relation map of the entries, each entry '<URL>; rel="name"' setting
\* the key name to URL, over what is there
LinksOf(entries, links) ==
    IF entries = <<>> THEN links
    ELSE LET url == PieceAfter(Head(entries), "<")
             rel == PieceAfter(Head(entries), "rel=\"")
         IN  IF url = None \/ rel = None
             THEN LinksOf(Tail(entries), links)
             ELSE LinksOf(Tail(entries), (Get(rel) :> Get(url)) @@ links)

NoLinks == [r \in {} |-> ""]

\* the relation map of a Link header: its comma-separated entries in order
ParseLinkHeader(header) ==
    IF header = None THEN NoLinks
    ELSE LinksOf(Split(Get(header), ","), NoLinks)

\* the pagination metadata of a response with the headers and the number of
\* items returned
ParsePagination(hdrs, returned) ==
    [total_count |-> HeaderIntOr(hdrs.total_count, returned),
     page        |-> HeaderIntOr(hdrs.current_page, 1),
     total_pages |-> HeaderIntOr(hdrs.total_pages, 1),
     links       |-> ParseLinkHeader(hdrs.link)]

\* Number of highlights a response returns, at most.
MaxReturned == 2

\* Number of entries of a Link header, at most.
MaxEntries == 2

\* values of a count header: absent, two numbers, not a number, empty
CountHeaders == {None, Some("2"), Some("7"), Some("abc"), Some("")}

LinkRels == {"next", "prev"}
LinkUrls ==
    {"https://test.readeck.com/api/bookmarks/annotations?page=1",
     "https://test.readeck.com/api/bookmarks/annotations?page=2"}
LinkEntries == [url : LinkUrls, rel : LinkRels]

\* '<URL>; rel="name"'
EntryText(e) == <<"<", e.url, ">", ";", " ", "rel=\"", e.rel, "\"">>

RECURSIVE LinkHeaderText(_)
\* the entries, separated by ", "
LinkHeaderText(entries) ==
    IF Len(entries) = 1 THEN EntryText(entries[1])
    ELSE EntryText(entries[1]) \o <<",", " ">> \o LinkHeaderText(Tail(entries))

\* the entries a Link header is written from (none: the header is absent)
LinkEntryLists == UNION {[1..n -> LinkEntries] : n \in 0..MaxEntries}

\* the pagination metadata of a response whose Link header is written from
\* the entries
ApplyParsePagination(total_count, current_page, total_pages, entries, returned) ==
    LET hdrs == [total_count |-> total_count, current_page |-> current_page,
                 total_pages |-> total_pages,
                 link |-> IF entries = <<>> THEN None
                          ELSE Some(LinkHeaderText(entries))]
    IN  /\ fn = ""
        /\ fn' = "parse_pagination"
        /\ arg' = [headers |-> hdrs, entries |-> entries, returned |-> returned]
        /\ result' = ParsePagination(hdrs, returned)
        /\ UNCHANGED <<client, tasks>>

\* The result is taken; the next application can start.
PureReturn ==
    /\ fn # ""
    /\ fn' = ""
    /\ arg' = <<>>
    /\ result' = <<>>
    /\ UNCHANGED <<client, tasks>>

\* One function is applied at a time: the inputs are drawn only when none is
\* being applied.
PureNext ==
    \/ fn = "" /\ \E content \in FmContents : ApplyParseFrontmatter(content)
    \/ fn = "" /\ \E params \in BookmarkListParams : ApplyToQueryParams(params)
    \/ fn = "" /\ \E b \in BaseCores, e \in EndpointCores,
                     first \in (0..MaxSlashes) \X (0..MaxSlashes),
                     second \in (0..MaxSlashes) \X (0..MaxSlashes) :
                       ApplyBuildUrl(b, e, first, second)
    \/ fn = "" /\ \E left_out \in {{}} \cup {{r} : r \in BookmarkRequired},
                     how \in [VariedFields -> WireStates] :
                       ApplyValidateBookmark(left_out, how)
    \/ fn = "" /\ \E total_count \in CountHeaders, current_page \in CountHeaders,
                     total_pages \in CountHeaders, entries \in LinkEntryLists,
                     returned \in 0..MaxReturned :
                       ApplyParsePagination(total_count, current_page,
                                            total_pages, entries, returned)
    \/ PureReturn

PureSpec == Init /\ [][PureNext]_vars

----------------------------------------------------------------------------
(* Properties *)

MakeRequestOps == {"get_user_profile", "get_bookmarks", "get_bookmark"}

\* The call in progress is finished and the transport gave it a response.
GotResponse == pc = "done" /\ reply # None /\ Get(reply).kind = "response"

\* The call in progress is finished and the transport raised an exception.
GotFailure == pc = "done" /\ reply # None /\ Get(reply).kind = "exception"

Raised(o, cls, status) ==
    o.kind = "raise" /\ o.exc = cls /\ o.status_code = Some(status)

SuccessStatuses == 200..299

ExpectedKind(status) ==
    CASE status \in {401, 403} -> "ReadeckAuthError"
      [] status = 404 -> "ReadeckNotFoundError"
      [] status \in {400, 422} -> "ReadeckValidationError"
      [] status \in 500..599 -> "ReadeckServerError"
      [] OTHER -> "ReadeckError"

\* C1: in the operations that go through _make_request, a response outside
\* 2xx raises the error kind of its status (401 and 403 auth, 404 not found,
\* 400 and 422 validation, 500-599 server, any other the generic error whose
\* message is "HTTP <status>: <body text>") with status_code the response
\* status, and exactly the 2xx responses get past the classification to the
\* body parsing (their outcome carries no status_code).
C1_StatusClassification ==
    (GotResponse /\ call.op \in MakeRequestOps) =>
        LET r == Get(reply)
            o == Get(outcome)
        IN  /\ r.status \notin SuccessStatuses =>
                  Raised(o, ExpectedKind(r.status), r.status)
            /\ (r.status \notin SuccessStatuses
                    /\ ExpectedKind(r.status) = "ReadeckError") =>
                  o.message = <<"HTTP ", ToString(r.status), ": ">> \o r.body
            /\ r.status \in SuccessStatuses => o.status_code = None

C1_Witness ==
    /\ GotResponse
    /\ call.op = "get_bookmark"
    /\ Get(reply).status = 409
    /\ Get(reply).body = PlainBody
    /\ Get(outcome).exc = "ReadeckError"
    /\ Get(outcome).message = <<"HTTP ", "409", ": ", "Bad Request">>

\* C2 as stated: in create_bookmark and export_bookmark, as in the generic
\* request, 404 raises ReadeckNotFoundError and 400 or 422 raises
\* ReadeckValidationError.
C2_SameClassificationEverywhere ==
    (GotResponse /\ call.op \in MakeRequestOps \cup {"create_bookmark", "export_bookmark"}) =>
        LET r == Get(reply)
            o == Get(outcome)
        IN  /\ r.status = 404 => Raised(o, "ReadeckNotFoundError", r.status)
            /\ r.status \in {400, 422} => Raised(o, "ReadeckValidationError", r.status)

\* C2 amended: the classification of 404, 400 and 422 differs by operation.
\* The generic request raises ReadeckNotFoundError on 404 and
\* ReadeckValidationError on 400 and 422; export_bookmark raises
\* ReadeckNotFoundError on 404 and the generic ReadeckError on 400 and 422;
\* create_bookmark raises ReadeckValidationError on 422 and the generic
\* ReadeckError on 404 and 400.
C2_ClassificationByOperation ==
    GotResponse =>
        LET r == Get(reply)
            o == Get(outcome)
        IN  /\ call.op \in MakeRequestOps =>
                /\ r.status = 404 => Raised(o, "ReadeckNotFoundError", r.status)
                /\ r.status \in {400, 422} =>
                        Raised(o, "ReadeckValidationError", r.status)
            /\ call.op = "export_bookmark" =>
                /\ r.status = 404 => Raised(o, "ReadeckNotFoundError", r.status)
                /\ r.status \in {400, 422} => Raised(o, "ReadeckError", r.status)
            /\ call.op = "create_bookmark" =>
                /\ r.status = 422 => Raised(o, "ReadeckValidationError", r.status)
                /\ r.status \in {400, 404} => Raised(o, "ReadeckError", r.status)

C2_Witness ==
    /\ GotResponse
    /\ call.op = "create_bookmark"
    /\ Get(reply).status = 404
    /\ Get(outcome).exc = "ReadeckError"

\* C3: a 403 response raises ReadeckAuthError with status_code 403 and the
\* "Access forbidden" message in get_user_profile, get_bookmarks,
\* get_bookmark, create_bookmark and export_bookmark.
C3_ForbiddenIsAuthError ==
    (GotResponse /\ Get(reply).status = 403
        /\ call.op \in MakeRequestOps \cup {"create_bookmark", "export_bookmark"}) =>
        /\ Raised(Get(outcome), "ReadeckAuthError", 403)
        /\ Get(outcome).message = Text("Access forbidden. Insufficient permissions.")

C3_Witness ==
    /\ GotResponse
    /\ call.op = "get_user_profile"
    /\ Get(reply).status = 403
    /\ Get(outcome).exc = "ReadeckAuthError"

\* C4: export_bookmark maps 401 and 403 to ReadeckAuthError, 404 to
\* ReadeckNotFoundError with a message naming the requested bookmark id,
\* 500-599 to ReadeckServerError and any other status outside 2xx, 400
\* included, to the generic ReadeckError with that status_code and a message
\* that starts with "HTTP <status>".
C4_ExportClassification ==
    (GotResponse /\ call.op = "export_bookmark") =>
        LET r == Get(reply)
            o == Get(outcome)
        IN  /\ r.status \in {401, 403} => Raised(o, "ReadeckAuthError", r.status)
            /\ r.status = 404 =>
                /\ Raised(o, "ReadeckNotFoundError", r.status)
                /\ \E i \in DOMAIN o.message : o.message[i] = call.bookmark_id
            /\ r.status \in 500..599 => Raised(o, "ReadeckServerError", r.status)
            /\ r.status \notin SuccessStatuses \cup {401, 403, 404} \cup (500..599) =>
                /\ Raised(o, "ReadeckError", r.status)
                /\ StartsWith(o.message, <<"HTTP ", ToString(r.status)>>)

C4_Witness ==
    /\ GotResponse
    /\ call.op = "export_bookmark"
    /\ Get(reply).status = 400
    /\ Get(outcome).exc = "ReadeckError"
    /\ Get(outcome).status_code = Some(400)

\* C5: create_bookmark treats 202 as a success: a 202 response never raises
\* an error that carries a status, and with a body {message, status} the
\* call returns a BookmarkCreateResult.
C5_Create202IsSuccess ==
    (GotResponse /\ call.op = "create_bookmark" /\ Get(reply).status = 202) =>
        /\ Get(outcome).status_code = None
        /\ Get(reply).body = CreateResponseDoc =>
              /\ Get(outcome).kind = "return"
              /\ Get(outcome).value.type = "BookmarkCreateResult"

C5_Witness ==
    /\ GotResponse
    /\ call.op = "create_bookmark"
    /\ Get(reply).status = 202
    /\ Get(reply).body = CreateResponseDoc
    /\ Get(outcome).kind = "return"

PublicOps ==
    {"get_user_profile", "get_bookmarks", "get_bookmark", "create_bookmark",
     "export_bookmark", "export_bookmark_parsed"}

\* C6 as stated: every finished call of a public operation has returned or
\* raised a ReadeckError (the base kind or a subclass).
C6_OnlyReadeckErrors ==
    (pc = "done" /\ call.op \in PublicOps) =>
        \/ Get(outcome).kind = "return"
        \/ IsReadeckError(Get(outcome).exc)

\* C7: a response with a success status whose body is not JSON makes the
\* operations that go through _make_request, and create_bookmark, raise the
\* generic ReadeckError "Failed to parse JSON response: ..." with no
\* status_code.
C7_InvalidJsonIsGenericError ==
    (GotResponse /\ call.op \in MakeRequestOps \cup {"create_bookmark"}
        /\ Get(reply).status \in SuccessStatuses
        /\ Get(reply).body \notin {p[1] : p \in JsonTable}) =>
        /\ Get(outcome).kind = "raise"
        /\ Get(outcome).exc = "ReadeckError"
        /\ StartsWith(Get(outcome).message, <<"Failed to parse JSON response: ">>)
        /\ Get(outcome).status_code = None

C7_Witness ==
    /\ GotResponse
    /\ call.op = "get_bookmarks"
    /\ Get(reply).status = 200
    /\ Get(reply).body = PlainBody
    /\ Get(outcome).exc = "ReadeckError"

\* C8: a timeout or connection failure of the transport reaches the caller
\* of an operation that sends a request as the generic ReadeckError with
\* the message "Request timeout: <text>" or "Request error: <text>".
C8_TransportFailureWrapped ==
    (GotFailure /\ call.op \in PublicOps) =>
        LET t == Get(reply)
            o == Get(outcome)
        IN  /\ o.kind = "raise"
            /\ o.exc = "ReadeckError"
            /\ o.message =
                 (IF t.exc \in {"ConnectTimeout", "ReadTimeout"}
                  THEN <<"Request timeout: ">> ELSE <<"Request error: ">>) \o t.text

C8_Witness ==
    /\ GotFailure
    /\ call.op = "export_bookmark"
    /\ Get(reply).exc = "ReadTimeout"
    /\ Get(outcome).exc = "ReadeckError"

\* C9: export_bookmark with a format other than "md" and "epub" raises
\* ReadeckValidationError with no status code and a message naming the
\* allowed formats, and the call sends no request.
C9_FormatGuard ==
    (pc # "idle" /\ call.op = "export_bookmark" /\ call.format \notin {"md", "epub"}) =>
        /\ pc = "done"
        /\ request = None
        /\ reply = None
        /\ Get(outcome).kind = "raise"
        /\ Get(outcome).exc = "ReadeckValidationError"
        /\ Get(outcome).status_code = None
        /\ Get(outcome).message[Len(Get(outcome).message)] = "'. Allowed formats: md, epub"

C9_Witness ==
    /\ pc = "done"
    /\ call.op = "export_bookmark"
    /\ call.format = "pdf"
    /\ Get(outcome).exc = "ReadeckValidationError"

\* C10: get_bookmarks returns a list only when the JSON of a success
\* response is an array; for any other JSON value it raises the generic
\* ReadeckError "Unexpected response format: ...".
C10_NonArrayIsError ==
    (GotResponse /\ call.op = "get_bookmarks"
        /\ Get(reply).status \in SuccessStatuses
        /\ \E p \in JsonTable : p[1] = Get(reply).body /\ p[2].t # "list") =>
        /\ Get(outcome).kind = "raise"
        /\ Get(outcome).exc = "ReadeckError"
        /\ StartsWith(Get(outcome).message,
                      <<"Unexpected response format: expected list, got ">>)

C10_Witness ==
    /\ GotResponse
    /\ call.op = "get_bookmarks"
    /\ Get(reply).status = 200
    /\ Get(reply).body = EmptyDictDoc
    /\ Get(outcome).kind = "raise"

\* The parsed body of a finished call passes the validation of the model
\* with these required fields.
BodyValidates(required, fields) ==
    \E p \in JsonTable :
        /\ p[1] = Get(reply).body
        /\ p[2].t = "dict"
        /\ required \subseteq p[2].keys
        /\ p[2].bad \cap fields = {}

\* The parsed body of a finished call is a list with an element that does
\* not pass the validation of Bookmark.
BodyHasInvalidBookmark ==
    \E p \in JsonTable :
        /\ p[1] = Get(reply).body
        /\ p[2].t = "list"
        /\ \E i \in DOMAIN p[2].items :
              ~(/\ p[2].items[i].t = "dict"
                /\ BookmarkRequired \subseteq p[2].items[i].keys
                /\ p[2].items[i].bad \cap BookmarkFields = {})

FailedToParse(o, what) ==
    /\ o.kind = "raise"
    /\ o.exc = "ReadeckError"
    /\ o.status_code = None
    /\ StartsWith(o.message, <<what>>)

\* C11: a success response whose JSON body fails the validation of the
\* domain model makes get_user_profile, get_bookmarks and get_bookmark raise
\* the generic ReadeckError "Failed to parse ..."; in get_bookmarks one
\* invalid element is enough, no list of the valid elements is returned.
C11_ValidationFailureIsGenericError ==
    (GotResponse /\ Get(reply).status \in SuccessStatuses
        /\ Get(reply).body \in {p[1] : p \in JsonTable}) =>
        /\ (call.op = "get_user_profile"
                /\ ~BodyValidates({"provider", "user"}, {"provider", "user"})) =>
              FailedToParse(Get(outcome), "Failed to parse user profile response: ")
        /\ (call.op = "get_bookmark"
                /\ ~BodyValidates(BookmarkRequired, BookmarkFields)) =>
              FailedToParse(Get(outcome), "Failed to parse bookmark response: ")
        /\ (call.op = "get_bookmarks" /\ BodyHasInvalidBookmark) =>
              FailedToParse(Get(outcome), "Failed to parse bookmarks response: ")

C11_Witness ==
    /\ GotResponse
    /\ call.op = "get_bookmarks"
    /\ Get(reply).status = 200
    /\ Get(reply).body = BookmarkListInvalidDoc
    /\ Get(outcome).kind = "raise"
    /\ Get(outcome).exc = "ReadeckError"

ParsedFrontmatter == fn = "_parse_markdown_frontmatter"

\* A line whose trimmed content is "---".
IsDelimiterLine(line) ==
    SelectSeq(line, LAMBDA x : x \notin {" ", "\t", "\r"}) = <<"-", "-", "-">>

\* The text begins with the delimiter line and a later line is a delimiter
\* line.
HasFrontmatterBlock(text) ==
    /\ Len(text) >= 4
    /\ SubSeq(text, 1, 4) = <<"-", "-", "-", "\n">>
    /\ \E i \in 2..Len(Split(text, "\n")) : IsDelimiterLine(Split(text, "\n")[i])

\* The index of the closing line of the block.
ClosingLine(text) ==
    CHOOSE i \in 2..Len(Split(text, "\n")) :
        /\ IsDelimiterLine(Split(text, "\n")[i])
        /\ \A j \in 2..(i - 1) : ~IsDelimiterLine(Split(text, "\n")[j])

\* The lines between the opening and the closing line.
BlockLines(text) ==
    {Split(text, "\n")[i] : i \in 2..(ClosingLine(text) - 1)}

\* C12 as stated: _parse_markdown_frontmatter never raises, and when the
\* text between the delimiters fails to parse as YAML or fails the
\* validation of MarkdownExportMetadata it returns metadata None and the
\* input as content.
C12_FrontmatterNeverRaises ==
    ParsedFrontmatter =>
        /\ result.exc = ""
        /\ (HasFrontmatterBlock(arg)
              /\ BlockLines(arg) \cap
                   {<<"title: [">>, <<"saved: 2021-13-45">>,
                    <<"saved: 2024-01-15">>} # {}) =>
              (result.metadata = None /\ result.content = arg)

\* C13: when the input does not begin with the delimiter line, or no later
\* line has the trimmed content "---", the function returns metadata None
\* and the input as content, and raises nothing.
C13_NoFrontmatterIsUnchanged ==
    (ParsedFrontmatter /\ ~HasFrontmatterBlock(arg)) =>
        /\ result.exc = ""
        /\ result.metadata = None
        /\ result.content = arg

\* an opening line with nothing that closes it
C13_Witness ==
    /\ ParsedFrontmatter
    /\ arg = <<"-", "-", "-", "\n", "title: T", "\n", "# X">>
    /\ result.metadata = None
    /\ result.content = arg

\* The text after the closing line of the block, from its first line that
\* is not empty on.
AfterClosingLine(text) ==
    LET ls    == Split(text, "\n")
        rest  == SubSeq(ls, ClosingLine(text) + 1, Len(ls))
        first == {i \in 1..Len(rest) : rest[i] # <<>>}
    IN  IF first = {} THEN <<>>
        ELSE Join(SubSeq(rest, CHOOSE i \in first : \A j \in first : i <= j,
                         Len(rest)), "\n")

HasEmptyBlock(text) ==
    /\ HasFrontmatterBlock(text)
    /\ ClosingLine(text) = 2

\* C15: an empty metadata block yields a MarkdownExportMetadata object with
\* no field set (every field at its default None): not metadata None, not a
\* parse failure.
C15_EmptyBlockIsEmptyMetadata ==
    (ParsedFrontmatter /\ HasEmptyBlock(arg)) =>
        /\ result.exc = ""
        /\ result.metadata # None
        /\ Get(result.metadata).t = "dict"
        /\ Get(result.metadata).keys = {}
        /\ Get(result.metadata).bad = {}

\* the text of test_parse_markdown_frontmatter_empty, shortened
C15_Witness ==
    /\ ParsedFrontmatter
    /\ arg = <<"-", "-", "-", "\n", "-", "-", "-", "\n", "\n", "# X">>
    /\ result.metadata = Some(JDict({}, {}))
    /\ result.content = <<"# X">>

AppliedToQueryParams == fn = "to_query_params"

\* The ISO-8601 string of each datetime given as updated_since.
Iso8601 ==
    (NaiveDatetime :> "2024-01-01T12:00:00") @@
    (AwareDatetime :> "2024-06-30T23:59:59.000123+00:00") @@
    (EastDatetime :> "0987-12-05T04:03:02+05:30") @@
    (WestDatetime :> "2024-01-01T00:00:00.450000-08:00")

\* C16: to_query_params emits a list-typed field (sort, type, read_status)
\* with one value as that value, a scalar, and with two or more values as
\* the list itself; updated_since as its ISO-8601 string; and no key for a
\* field that is None.
C16_ToQueryParams ==
    AppliedToQueryParams =>
        \A f \in ParamFields :
            /\ arg[f] = None => f \notin DOMAIN result
            /\ (f \in ListFields /\ arg[f] # None /\ Len(Get(arg[f]).v) = 1) =>
                  /\ f \in DOMAIN result
                  /\ result[f].t = "str"
                  /\ result[f].v = Get(arg[f]).v[1]
            /\ (f \in ListFields /\ arg[f] # None /\ Len(Get(arg[f]).v) >= 2) =>
                  /\ f \in DOMAIN result
                  /\ result[f].t = "list"
                  /\ result[f].v = Get(arg[f]).v
            /\ (f \in DatetimeFields /\ arg[f] # None) =>
                  /\ f \in DOMAIN result
                  /\ result[f].t = "str"
                  /\ result[f].v = Iso8601[Get(arg[f]).v]

\* one value, two values, a datetime and unset fields in one call
C16_Witness ==
    /\ AppliedToQueryParams
    /\ arg["sort"] = Some(ListV(<<"created">>))
    /\ arg["type"] = Some(ListV(<<"article", "video">>))
    /\ arg["updated_since"] = Some(DatetimeV(AwareDatetime))
    /\ arg["limit"] = None
    /\ result["sort"] = StrV("created")
    /\ result["type"] = ListV(<<"article", "video">>)
    /\ result["updated_since"] = StrV("2024-06-30T23:59:59.000123+00:00")
    /\ "limit" \notin DOMAIN result

\* The JSON body of the request that create_bookmark has sent.
CreateSent == call.op = "create_bookmark" /\ request # None
SentJson == Get(Get(request).json)

\* C17: the JSON body that create_bookmark sends always has url and labels
\* (labels is the empty list when the caller gives no labels or None), has
\* title exactly when the caller gave a title, and has no other key: no key
\* is sent for a field that is None.
C17_CreatePayload ==
    CreateSent =>
        /\ Get(request).json # None
        /\ {"url", "labels"} \subseteq DOMAIN SentJson
        /\ DOMAIN SentJson \subseteq {"url", "labels", "title"}
        /\ SentJson["url"] = call.url
        /\ call.labels = None => SentJson["labels"] = <<>>
        /\ call.labels # None => SentJson["labels"] = Get(call.labels)
        /\ "title" \in DOMAIN SentJson <=> call.title # None
        /\ call.title # None => SentJson["title"] = Get(call.title)

\* the minimal call: a url only
C17_Witness ==
    /\ CreateSent
    /\ pc = "awaiting"
    /\ call.title = None
    /\ call.labels = None
    /\ DOMAIN SentJson = {"url", "labels"}
    /\ SentJson["labels"] = <<>>

CreateGotResponse == GotResponse /\ call.op = "create_bookmark"

\* C18 as stated: the two headers are read whatever the outcome of parsing
\* the body, so every response with a success status gives a result that
\* carries them.
C18_HeadersReadWhateverTheBody ==
    (CreateGotResponse /\ Get(reply).status \in SuccessStatuses) =>
        /\ Get(outcome).kind = "return"
        /\ Get(outcome).value.bookmark_id = Get(reply).headers.bookmark_id
        /\ Get(outcome).value.location = Get(reply).headers.location

\* C18, amended: the headers are read only once the body has parsed and
\* validated. A result is returned only for a body that is a valid
\* BookmarkCreateResponse, and in it bookmark_id and location each equal
\* their own header (None exactly when that header is absent, whatever the
\* other header is); a success status with any other body raises the
\* generic ReadeckError, whatever the headers are.
C18_HeadersInResult ==
    CreateGotResponse =>
        /\ Get(outcome).kind = "return" =>
              /\ Get(reply).body = CreateResponseDoc
              /\ Get(outcome).value.bookmark_id = Get(reply).headers.bookmark_id
              /\ Get(outcome).value.location = Get(reply).headers.location
              /\ Get(outcome).value.bookmark_id = None
                    <=> Get(reply).headers.bookmark_id = None
              /\ Get(outcome).value.location = None
                    <=> Get(reply).headers.location = None
        /\ (Get(reply).status \in SuccessStatuses
              /\ Get(reply).body # CreateResponseDoc) =>
              /\ Get(outcome).kind = "raise"
              /\ Get(outcome).exc = "ReadeckError"
              /\ Get(outcome).status_code = None

\* a Location header without a Bookmark-Id header
C18_Witness ==
    /\ CreateGotResponse
    /\ Get(reply).headers.bookmark_id = None
    /\ Get(reply).headers.location # None
    /\ Get(outcome).kind = "return"
    /\ Get(outcome).value.bookmark_id = None
    /\ Get(outcome).value.location = Get(reply).headers.location

ExportSent == call.op = "export_bookmark" /\ request # None

\* The URL of the article of a bookmark in a format.
ArticleUrl(bookmark_id, extension) ==
    base_url \o <<"/", "api", "/", "bookmarks", "/", bookmark_id, "/",
                   "article.", extension>>

\* C19: export_bookmark with format "md" sends Accept: text/markdown to
\* .../article.md and returns the response as text; with format "epub" it
\* sends Accept: application/epub+zip to .../article.epub and returns the
\* bytes. The kind of the value returned depends on the format only, never
\* on the response.
C19_ExportByFormat ==
    ExportSent =>
        /\ call.format \in {"md", "epub"}
        /\ Get(request).method = "GET"
        /\ call.format = "md" =>
              /\ Get(request).headers["Accept"] = "text/markdown"
              /\ Get(request).url = ArticleUrl(call.bookmark_id, "md")
        /\ call.format = "epub" =>
              /\ Get(request).headers["Accept"] = "application/epub+zip"
              /\ Get(request).url = ArticleUrl(call.bookmark_id, "epub")
        /\ (pc = "done" /\ Get(outcome).kind = "return" /\ call.format = "md") =>
              /\ Get(outcome).value.type = "str"
              /\ Get(outcome).value.text = Get(reply).body
        /\ (pc = "done" /\ Get(outcome).kind = "return" /\ call.format = "epub") =>
              /\ Get(outcome).value.type = "bytes"
              /\ Get(outcome).value.content = Get(reply).body

\* an epub export answered with a markdown body still returns bytes
C19_Witness ==
    /\ ExportSent
    /\ pc = "done"
    /\ call.format = "epub"
    /\ Get(request).headers["Accept"] = "application/epub+zip"
    /\ Get(reply).kind = "response"
    /\ Get(reply).body = MdFrontmatter
    /\ Get(outcome).kind = "return"
    /\ Get(outcome).value.type = "bytes"

HealthChecked == pc = "done" /\ call.op = "health_check"

\* C20: health_check never raises an error of the library's taxonomy; once
\* the transport has answered it returns True exactly when get_user_profile
\* succeeds on that answer, and False when get_user_profile fails with any
\* kind of ReadeckError (auth, not-found, validation, server, or the generic
\* kind of transport, JSON-parse and profile-validation failures).
C20_HealthCheckIsBoolean ==
    HealthChecked =>
        /\ ~(Get(outcome).kind = "raise"
               /\ Get(outcome).exc \in
                    {"ReadeckError", "ReadeckAuthError", "ReadeckNotFoundError",
                     "ReadeckValidationError", "ReadeckServerError"})
        /\ reply # None =>
              LET profile == GetUserProfile(Get(reply))
              IN  /\ Get(outcome).kind = "return"
                  /\ Get(outcome).value.type = "bool"
                  /\ Get(outcome).value.bool <=> profile.kind = "return"
                  /\ profile.kind = "return" =>
                        /\ Get(reply).kind = "response"
                        /\ Get(reply).status \in SuccessStatuses
                        /\ Get(reply).body = ProfileDoc
                  /\ ~Get(outcome).value.bool =>
                        /\ profile.kind = "raise"
                        /\ profile.exc \in
                             {"ReadeckError", "ReadeckAuthError",
                              "ReadeckNotFoundError", "ReadeckValidationError",
                              "ReadeckServerError"}

\* a success response whose body is not a profile: the generic kind
C20_Witness ==
    /\ HealthChecked
    /\ GotResponse
    /\ Get(reply).status = 200
    /\ Get(reply).body = EmptyDictDoc
    /\ GetUserProfile(Get(reply)).exc = "ReadeckError"
    /\ Get(outcome).kind = "return"
    /\ Get(outcome).value.bool = FALSE

BlockLeft == scope \in {"normal", "exception"}

\* C21: used as an async context manager the client closes the transport
\* exactly once when the block is left, however the block ends: entering
\* closes nothing, the transport is not closed inside the block unless the
\* caller closes it itself, leaving the block is one call of close(), and
\* once the block is left the transport is closed.
C21_ContextManagerClosesOnce ==
    /\ [](BlockLeft => closed)
    /\ []((scope = "inside" /\ closes = 0) => ~closed)
    /\ [][(scope = "none" /\ scope' = "inside") =>
             (closed' = closed /\ closes' = closes)]_vars
    /\ [][(scope = "inside" /\ scope' # "inside") =>
             (BlockLeft' /\ closed' /\ closes' = closes + 1)]_vars
    /\ [][BlockLeft => scope' = scope]_vars

\* the block is left by the exception of a call made inside it
C21_Witness ==
    /\ scope = "exception"
    /\ pc = "done"
    /\ Get(outcome).kind = "raise"
    /\ closed
    /\ closes = 1

\* C22: every public operation sends at most one HTTP request per call and
\* a failed call is never retried: a request is sent only by the step that
\* starts a call, one request at a time; the step that follows the answer
\* of the transport ends the call, whatever the answer; and a call that has
\* ended sends nothing.
C22_SingleShot ==
    [][/\ sent' \in {sent, sent + 1}
       /\ sent' = sent + 1 =>
             (pc = "idle" /\ pc' = "awaiting" /\ call'.op \in Ops
                /\ request' # None)
       /\ pc = "awaiting" => (pc' = "done" /\ outcome' # None /\ sent' = sent)
       /\ pc = "done" => sent' = sent]_vars

\* a call that timed out has ended after its one request
C22_Witness ==
    /\ GotFailure
    /\ Get(reply).exc \in TimeoutExceptions
    /\ Get(outcome).kind = "raise"
    /\ sent = 1

AppliedBuildUrl == fn = "_build_url"

\* Endpoints whose segments are all names.
PlainEndpoints == {<<"profile">>, <<"bookmarks", "/", "bm1">>, <<>>}

NoDoubledSlash(url) ==
    \A i \in 1..(Len(url) - 1) : ~(url[i] = "/" /\ url[i + 1] = "/")

\* C23: _build_url gives the same URL whether or not the endpoint is
\* written with a leading slash and whether or not the base URL was given
\* with a trailing slash; the URL has no doubled slash; for an endpoint
\* made of names it is <base>/api/<endpoint>, base and endpoint without
\* those slashes.
C23_BuildUrlSlashStyle ==
    AppliedBuildUrl =>
        /\ result[1] = result[2]
        /\ NoDoubledSlash(result[1])
        /\ NoDoubledSlash(result[2])
        /\ LStripPieces(arg[1].endpoint, {"/"}) \in PlainEndpoints =>
              result[1] = RStripPieces(arg[1].given, {"/"})
                            \o <<"/", "api", "/">>
                            \o LStripPieces(arg[1].endpoint, {"/"})

\* trailing slash on the base against leading slash on the endpoint
C23_Witness ==
    /\ AppliedBuildUrl
    /\ arg[1] = [given |-> <<"https://readeck.example.com", "/">>,
                 endpoint |-> <<"profile">>]
    /\ arg[2] = [given |-> <<"https://readeck.example.com">>,
                 endpoint |-> <<"/", "profile">>]
    /\ result[1] = <<"https://readeck.example.com", "/", "api", "/", "profile">>
    /\ result[2] = result[1]

ValidatedBookmark == fn = "Bookmark.model_validate"

BooleanFields == {"loaded", "has_article", "is_archived", "is_deleted", "is_marked"}
NumericFields == {"word_count", "reading_time", "read_progress", "state"}

\* C24: a Bookmark payload that holds only id, href, url, title, type,
\* created and updated parses, with description "", labels and authors
\* empty, the five boolean flags False, the four numeric fields 0, and
\* resources, links and read_anchor None; and no boolean or numeric field
\* is required: a payload never fails for the absence of one.
C24_BookmarkDefaults ==
    ValidatedBookmark =>
        /\ DOMAIN arg = {"id", "href", "url", "title", "type", "created", "updated"} =>
              /\ result.exc = ""
              /\ result.object["description"].t = "str"
              /\ result.object["description"].v = ""
              /\ \A f \in {"labels", "authors"} :
                    result.object[f].t = "list" /\ result.object[f].v = <<>>
              /\ \A f \in BooleanFields :
                    result.object[f].t = "bool" /\ result.object[f].v = FALSE
              /\ \A f \in {"word_count", "reading_time", "state"} :
                    result.object[f].t = "int" /\ result.object[f].v = 0
              /\ result.object["read_progress"].t = "float"
              /\ result.object["read_progress"].v = 0
              /\ \A f \in {"resources", "links", "read_anchor"} :
                    result.object[f].t = "none"
        /\ result.exc # "" =>
              \/ \E f \in {"id", "href", "url", "title", "type", "created", "updated"} :
                    f \notin DOMAIN arg
              \/ \E f \in DOMAIN arg : arg[f].t = "null" \/ arg[f] = WireValue(f, "bad")

\* the payload of test_get_bookmark_minimal_response
C24_Witness ==
    /\ ValidatedBookmark
    /\ arg = MinimalBookmark
    /\ result.exc = ""
    /\ result.object["is_marked"] = BoolV(FALSE)
    /\ result.object["word_count"] = IntV(0)
    /\ result.object["resources"] = NoneV

ParsedPagination == fn = "parse_pagination"

\* The integer each count header used here writes; the others write none.
HeaderNumber == ("2" :> 2) @@ ("7" :> 7)

\* The value of a count field: the number of its own header, or its
\* fallback when the header is absent or writes no number.
CountField(header, fallback) ==
    IF header # None /\ Get(header) \in DOMAIN HeaderNumber
    THEN HeaderNumber[Get(header)] ELSE fallback

\* C25: total_count, page and total_pages are the integers of the headers
\* Total-Count, Current-Page and Total-Pages; each falls back on its own
\* when its header is absent or unparsable, total_count to the number of
\* items returned, page to 1, total_pages to 1.
C25_PaginationFallbacks ==
    ParsedPagination =>
        /\ result.total_count = CountField(arg.headers.total_count, arg.returned)
        /\ result.page = CountField(arg.headers.current_page, 1)
        /\ result.total_pages = CountField(arg.headers.total_pages, 1)

\* one header absent, one unparsable, one a number
C25_Witness ==
    /\ ParsedPagination
    /\ arg.headers.total_count = None
    /\ arg.headers.current_page = Some("abc")
    /\ arg.headers.total_pages = Some("7")
    /\ arg.returned = 2
    /\ result.total_count = 2
    /\ result.page = 1
    /\ result.total_pages = 7

\* C26: the relation map has one key for each relation name of the Link
\* header's entries, mapped to the URL of the last entry with that name;
\* without a Link header the map is empty.
C26_RelationMap ==
    ParsedPagination =>
        /\ DOMAIN result.links = {arg.entries[i].rel : i \in DOMAIN arg.entries}
        /\ \A i \in DOMAIN arg.entries :
              (\A j \in DOMAIN arg.entries :
                  arg.entries[j].rel = arg.entries[i].rel => j <= i) =>
                 result.links[arg.entries[i].rel] = arg.entries[i].url
        /\ arg.headers.link = None => result.links = NoLinks

\* two entries with the same relation name: the later one stays
C26_Witness ==
    /\ ParsedPagination
    /\ Len(arg.entries) = 2
    /\ arg.entries[1].rel = "next"
    /\ arg.entries[2].rel = "next"
    /\ arg.entries[1].url # arg.entries[2].url
    /\ DOMAIN result.links = {"next"}
    /\ result.links["next"] = arg.entries[2].url

\* The step ends a call with an error.
CallFails ==
    /\ pc # "done"
    /\ pc' = "done"
    /\ Get(outcome').kind = "raise"

\* C27: a call that fails is terminal for that call only and changes
\* nothing in the client: the step that ends a call with an error leaves
\* the transport open or closed as it was and the base URL, the token and
\* the default headers unchanged; the caller goes on from it to the next
\* call with the number of requests sent as only change; and what a call
\* sends and yields is fixed by the call, the answer and that unchanged
\* configuration, so a following call is as if the failed one was never
\* made.
C27_FailureChangesNothing ==
    /\ [][CallFails =>
             /\ closed' = closed
             /\ closes' = closes
             /\ base_url' = base_url
             /\ token' = token
             /\ headers' = headers]_vars
    /\ [][(pc = "done" /\ pc' = "idle") =>
             /\ UNCHANGED <<base_url, token, headers, closed, closes>>
             /\ call' = NoCall /\ request' = None /\ reply' = None
             /\ outcome' = None]_vars
    /\ [](headers = DefaultHeaders(token) /\ base_url = <<"https://readeck.example.com">>)
    /\ []((pc = "done" /\ reply # None) =>
             /\ request = Some(RequestOf(call))
             /\ outcome = Some(Handle(call, Get(reply))))

\* a second call has failed by timeout and the transport is still open
C27_Witness ==
    /\ GotFailure
    /\ sent = 2
    /\ Get(reply).exc \in TimeoutExceptions
    /\ Get(outcome).kind = "raise"
    /\ ~closed
    /\ headers = DefaultHeaders(token)

\* C28: the default headers are fixed after construction and no operation
\* writes shared state. The Content-Type of create_bookmark and the Accept
\* of export_bookmark are on the request of that call only: every request,
\* whatever was sent before it or is in flight beside it, carries the
\* bearer token, and Accept: application/json unless it is an export; and
\* each of the interleaved calls has the outcome of its own answer.
C28_NoSharedHeaderWrites ==
    /\ headers = DefaultHeaders(token)
    /\ \A i \in Tasks :
          tasks[i].request # None =>
             LET q == Get(tasks[i].request)
                 c == tasks[i].call
             IN  /\ q.headers["Authorization"] = "Bearer " \o token
                 /\ q.headers["User-Agent"] = "readeck-python/0.1.0"
                 /\ c.op # "export_bookmark" =>
                       q.headers["Accept"] = "application/json"
                 /\ (c.op = "export_bookmark" /\ c.format = "md") =>
                       q.headers["Accept"] = "text/markdown"
                 /\ (c.op = "export_bookmark" /\ c.format = "epub") =>
                       q.headers["Accept"] = "application/epub+zip"
                 /\ "Content-Type" \in DOMAIN q.headers <=> c.op = "create_bookmark"
    /\ \A i \in Tasks :
          tasks[i].pc = "done" =>
             /\ tasks[i].outcome = Some(Handle(tasks[i].call, Get(tasks[i].reply)))
             /\ Get(tasks[i].reply).status = 401 =>
                   Get(tasks[i].outcome).exc = "ReadeckAuthError"
             /\ Get(tasks[i].reply).exc = "ReadTimeout" =>
                   Get(tasks[i].outcome).exc = "ReadeckError"

\* a profile request is answered while an export is in flight on the same
\* client
C28_Witness ==
    /\ tasks[1].pc = "awaiting"
    /\ tasks[1].call.op = "export_bookmark"
    /\ Get(tasks[1].request).headers["Accept"] = "text/markdown"
    /\ tasks[2].pc = "done"
    /\ tasks[2].call.op = "get_user_profile"
    /\ Get(tasks[2].request).headers["Accept"] = "application/json"
    /\ Get(tasks[2].outcome).kind = "return"

\* The call in progress got an answer that the operation treats as a
\* validation failure: 400 or 422 in the operations that go through
\* _make_request, 422 in create_bookmark.
ValidationResponse ==
    /\ GotResponse
    /\ \/ call.op \in MakeRequestOps /\ Get(reply).status \in {400, 422}
       \/ call.op = "create_bookmark" /\ Get(reply).status = 422

\* C29: on a 400 or 422 response in _make_request, and on a 422 response in
\* create_bookmark, ReadeckValidationError is raised with the status of the
\* response whether or not the body is JSON; response_data is the parsed
\* body when it parses and None when it does not.
C29_ValidationErrorWhateverTheBody ==
    ValidationResponse =>
        LET r == Get(reply)
            o == Get(outcome)
        IN  /\ o.kind = "raise"
            /\ o.exc = "ReadeckValidationError"
            /\ o.status_code = Some(r.status)
            /\ o.message = <<"Validation error: ">> \o r.body
            /\ (\E p \in JsonTable : p[1] = r.body) =>
                  \E p \in JsonTable : p[1] = r.body /\ o.response_data = Some(p[2])
            /\ (\A p \in JsonTable : p[1] # r.body) => o.response_data = None

\* create_bookmark is answered 422 with a body that is not JSON
C29_Witness ==
    /\ ValidationResponse
    /\ call.op = "create_bookmark"
    /\ Get(reply).body = PlainBody
    /\ Get(outcome).exc = "ReadeckValidationError"
    /\ Get(outcome).status_code = Some(422)
    /\ Get(outcome).response_data = None

\* s is the end of t
IsSuffix(s, t) ==
    /\ Len(s) <= Len(t)
    /\ SubSeq(t, Len(t) - Len(s) + 1, Len(t)) = s

\* The number of lines of the text, from line number first on, whose
\* trimmed content is "---".
DelimiterLinesFrom(text, first) ==
    Cardinality({i \in first..Len(Split(text, "\n")) :
                    IsDelimiterLine(Split(text, "\n")[i])})

\* Lines that yaml.safe_load and MarkdownExportMetadata accept in a block.
PlainBlockLines == {<<>>, <<" ">>, <<"title: T">>, <<"# X">>, <<" ", "# X">>}

\* C30: the metadata block ends at the first line after the opening one
\* whose trimmed content is "---": what stands between the two is parsed
\* whatever follows, every later "---" line is left in the returned
\* content, and the returned content is the end of the input (the whole
\* input when metadata is None).
C30_BlockEndsAtFirstClosingLine ==
    (ParsedFrontmatter /\ result.exc = "") =>
        /\ IsSuffix(result.content, arg)
        /\ result.metadata = None => result.content = arg
        /\ (HasFrontmatterBlock(arg) /\ BlockLines(arg) \subseteq PlainBlockLines) =>
              /\ result.metadata # None
              /\ Get(result.metadata).keys =
                    {"title" : l \in BlockLines(arg) \cap {<<"title: T">>}}
        /\ result.metadata # None =>
              DelimiterLinesFrom(result.content, 1) =
                 DelimiterLinesFrom(arg, ClosingLine(arg) + 1)

\* a second "---" line follows the one that closes the block
C30_Witness ==
    /\ ParsedFrontmatter
    /\ arg = <<"-", "-", "-", "\n", "title: T", "\n", "-", "-", "-", "\n",
               "-", "-", "-">>
    /\ result.metadata # None
    /\ Get(result.metadata).keys = {"title"}
    /\ result.content = <<"-", "-", "-">>

====
